---- MODULE Spec2Model ----
(***************************************************************************)
(* signal-extract: the structured-opportunity extraction cycle             *)
(* (synthesizer/engine.py) and the opportunity store (storage/db.py).      *)
(*                                                                         *)
(* JSON values are tagged records:                                         *)
(*   [t |-> "str", s |-> ...]   a string                                   *)
(*   [t |-> "num", h |-> n]     a finite number, in halves (h = 2 * value) *)
(*   [t |-> "big"]              an integer literal >= 2^63                 *)
(*   [t |-> "inf"], [t |-> "nan"]  what json.loads makes of 1e999 and NaN  *)
(*   [t |-> "bool", b |-> ...], [t |-> "null"]                             *)
(*   [t |-> "list", items |-> <<...>>]                                     *)
(*   [t |-> "obj", f |-> [field |-> value, ...]]                           *)
(* A response text is a sequence of tokens: code fences, prose, brackets,  *)
(* commas and serialized non-array JSON values.                            *)
(***************************************************************************)
EXTENDS Integers, Sequences, FiniteSets, TLC

\* ------------------------------------------------------------------ bounds

\* cycles (invocations of structured_opportunity_report) in one behaviour
MaxCycles == 2
\* completion requests the model lets one cycle make (the code needs 2)
MaxCalls == 4
\* store operations issued by another caller on the same Storage object
MaxClientOps == 1
\* elements of the arrays parse_opportunities_json is called with on its own
MaxElems == 2

\* --------------------------------------------------------------- JSON values

Str(s) == [t |-> "str", s |-> s]
Num(n) == [t |-> "num", h |-> 2 * n]
Half(h) == [t |-> "num", h |-> h]
Big == [t |-> "big"]
Inf == [t |-> "inf"]
NaN == [t |-> "nan"]
Bool(b) == [t |-> "bool", b |-> b]
Null == [t |-> "null"]
List(items) == [t |-> "list", items |-> items]
Obj(fields) == [t |-> "obj", f |-> fields]

\* str.strip() is empty exactly for the empty string and for blanks
BlankStrings == {"", " "}

\* isinstance(v, str) and v.strip()
IsNonEmptyStr(v) == v.t = "str" /\ v.s \notin BlankStrings

\* isinstance(v, (int, float)): bool is a subclass of int
IsNumber(v) == v.t \in {"num", "big", "inf", "nan", "bool"}

\* 0 <= v <= 100 for a number v (every comparison with NaN is False)
InRange0To100(v) ==
    CASE v.t = "num" -> 0 <= v.h /\ v.h <= 200
      [] v.t = "bool" -> TRUE
      [] OTHER -> FALSE

\* hash(v) raises TypeError for a list and for a dict
IsHashable(v) == v.t \notin {"list", "obj"}

\* ----------------------------------------------------- _extract_json_array

Tok(k) == [k |-> k]
Fence == Tok("fence")
Prose == Tok("prose")
LB == Tok("lb")
RB == Tok("rb")
Comma == Tok("comma")
\* the double quote that opens or closes a JSON string
Quote == Tok("quote")
\* the serialization of a JSON value that is not an array
Val(v) == [k |-> "val", v |-> v]

\* re.sub(r"```(?:json)?\s*\n?", "", text): every fence marker is removed
RECURSIVE StripFences(_)
StripFences(text) ==
    IF text = <<>> THEN <<>>
    ELSE IF Head(text).k = "fence" THEN StripFences(Tail(text))
    ELSE <<Head(text)>> \o StripFences(Tail(text))

\* text.find("["): the index of the first opening bracket, 0 for -1
RECURSIVE FindFrom(_, _)
FindFrom(text, i) ==
    IF i > Len(text) THEN 0
    ELSE IF text[i].k = "lb" THEN i
    ELSE FindFrom(text, i + 1)

\* ScanEnd that stops at the first closing bracket, whatever the depth
RECURSIVE ScanEnd_FirstClose(_, _, _)
ScanEnd_FirstClose(text, i, depth) ==
    IF i > Len(text) THEN 0
    ELSE IF text[i].k = "rb" THEN i
    ELSE ScanEnd_FirstClose(text, i + 1, depth)

\* the depth scan of lines 53-62: the index after which depth is 0 again,
\* 0 when the loop ends with end == -1
RECURSIVE ScanEnd(_, _, _)
ScanEnd(text, i, depth) ==
    IF i > Len(text) THEN 0
    ELSE IF text[i].k = "lb" THEN ScanEnd(text, i + 1, depth + 1)
    ELSE IF text[i].k = "rb"
         THEN IF depth - 1 = 0 THEN i ELSE ScanEnd(text, i + 1, depth - 1)
    ELSE ScanEnd(text, i + 1, depth)

ValueError(why, n) == [kind |-> "ValueError", why |-> why, reasons |-> n]
TypeError == [kind |-> "TypeError"]
OverflowError == [kind |-> "OverflowError"]

_extract_json_array(raw) ==
    LET text == StripFences(raw)
        start == FindFrom(text, 1)
        end == ScanEnd(text, start, 0)
    IN  IF start = 0 THEN ValueError("No JSON array found", 0)
        ELSE IF end = 0 THEN ValueError("Unbalanced brackets", 0)
        ELSE [kind |-> "ok", text |-> SubSeq(text, start, end)]

\* ------------------------------------------------------------- json.loads

ParseFail == [ok |-> FALSE, v |-> Null, next |-> 0]

\* the index of the next double quote from i on, 0 for none
RECURSIVE NextQuote(_, _)
NextQuote(toks, i) ==
    IF i > Len(toks) THEN 0
    ELSE IF toks[i].k = "quote" THEN i
    ELSE NextQuote(toks, i + 1)

\* the characters between the quotes of a string literal, as the str they
\* decode to (three backticks are written ~~~)
RECURSIVE CharsOf(_)
CharsOf(toks) ==
    IF toks = <<>> THEN ""
    ELSE (CASE Head(toks).k = "lb" -> "["
            [] Head(toks).k = "rb" -> "]"
            [] Head(toks).k = "fence" -> "~~~"
            [] Head(toks).k = "comma" -> ","
            [] OTHER -> "x") \o CharsOf(Tail(toks))

RECURSIVE ParseValue(_, _)
RECURSIVE ParseElems(_, _, _)

\* one JSON value starting at toks[i]: a serialized value or a nested array
ParseValue(toks, i) ==
    IF i > Len(toks) THEN ParseFail
    ELSE IF toks[i].k = "val" THEN [ok |-> TRUE, v |-> toks[i].v, next |-> i + 1]
    ELSE IF toks[i].k = "quote"
         THEN LET j == NextQuote(toks, i + 1)
              IN  IF j = 0 THEN ParseFail
                  ELSE [ok |-> TRUE, v |-> Str(CharsOf(SubSeq(toks, i + 1, j - 1))),
                        next |-> j + 1]
    ELSE IF toks[i].k = "lb"
         THEN IF i + 1 <= Len(toks) /\ toks[i + 1].k = "rb"
              THEN [ok |-> TRUE, v |-> List(<<>>), next |-> i + 2]
              ELSE ParseElems(toks, i + 1, <<>>)
    ELSE ParseFail

\* the elements of an array after its opening bracket, up to its closing one
ParseElems(toks, i, acc) ==
    LET r == ParseValue(toks, i)
    IN  IF ~r.ok \/ r.next > Len(toks) THEN ParseFail
        ELSE IF toks[r.next].k = "comma"
             THEN ParseElems(toks, r.next + 1, Append(acc, r.v))
        ELSE IF toks[r.next].k = "rb"
             THEN [ok |-> TRUE, v |-> List(Append(acc, r.v)), next |-> r.next + 1]
        ELSE ParseFail

\* json.loads(json_str): the value, or JSONDecodeError (a ValueError)
json_loads(toks) ==
    LET r == ParseValue(toks, 1)
    IN  IF r.ok /\ r.next = Len(toks) + 1
        THEN [kind |-> "ok", data |-> r.v]
        ELSE ValueError("JSONDecodeError", 0)

\* ----------------------------------------------- _validate_opportunity_dict

VALID_EFFORT_ESTIMATES == {"weekend", "1-2 weeks", "month+"}

required_str_fields ==
    <<"id", "title", "pain", "target_buyer", "solution_shape",
      "market_type", "effort_estimate", "monetization", "moat">>

Has(d, field) == field \in DOMAIN d

\* lines 80-82: one error per required field that is missing, no string or blank
RECURSIVE RequiredFieldErrors(_, _)
RequiredFieldErrors(d, i) ==
    IF i > Len(required_str_fields) THEN <<>>
    ELSE LET field == required_str_fields[i]
         IN  (IF ~Has(d, field) \/ ~IsNonEmptyStr(d[field])
              THEN <<field>> ELSE <<>>)
             \o RequiredFieldErrors(d, i + 1)

\* lines 84-89
ConfidenceErrors(d) ==
    IF ~Has(d, "confidence") THEN <<"confidence">>
    ELSE IF ~IsNumber(d["confidence"]) THEN <<"confidence">>
    ELSE IF ~InRange0To100(d["confidence"]) THEN <<"confidence">>
    ELSE <<>>

\* line 91: membership of a set hashes the value
EffortRaises(d) == Has(d, "effort_estimate") /\ ~IsHashable(d["effort_estimate"])

EffortInSet(v) == v.t = "str" /\ v.s \in VALID_EFFORT_ESTIMATES

\* lines 91-95
EffortErrors(d) ==
    IF Has(d, "effort_estimate") /\ ~EffortInSet(d["effort_estimate"])
    THEN <<"effort_estimate">> ELSE <<>>

evidence_fields == <<"source", "item_title", "url">>

\* lines 103-108 for one evidence entry
EvidenceEntryErrors(ev) ==
    IF ev.t # "obj" THEN <<"evidence">>
    ELSE LET E(i) == IF ~Has(ev.f, evidence_fields[i])
                        \/ ~IsNonEmptyStr(ev.f[evidence_fields[i]])
                     THEN <<"evidence">> ELSE <<>>
         IN  E(1) \o E(2) \o E(3)

RECURSIVE EvidenceListErrors(_)
EvidenceListErrors(evs) ==
    IF evs = <<>> THEN <<>>
    ELSE EvidenceEntryErrors(Head(evs)) \o EvidenceListErrors(Tail(evs))

\* lines 97-108
EvidenceErrors(d) ==
    IF ~Has(d, "evidence") \/ d["evidence"].t # "list" THEN <<"evidence">>
    ELSE IF Len(d["evidence"].items) = 0 THEN <<"evidence">>
    ELSE EvidenceListErrors(d["evidence"].items)

\* the list of error messages (each named by its field), or the TypeError of
\* line 91
_validate_opportunity_dict(d) ==
    IF EffortRaises(d) THEN TypeError
    ELSE [kind |-> "ok",
          errors |-> RequiredFieldErrors(d, 1) \o ConfidenceErrors(d)
                     \o EffortErrors(d) \o EvidenceErrors(d)]

\* ------------------------------------------------ parse_opportunities_json

\* an integer as Python holds it: one that fits SQLite's 64 bits, or a bigger one
SmallInt(n) == [big |-> FALSE, n |-> n]
BigInt == [big |-> TRUE, n |-> 0]

\* int(x) of a finite float truncates toward zero
Trunc(h) == IF h >= 0 THEN h \div 2 ELSE -((-h) \div 2)

\* int(s) of the strings that are integer literals
NumericStrings == {"65", "9"}
StrToInt(s) == IF s = "65" THEN 65 ELSE 9

\* int(v): the integer, or the error int() raises
int(v) ==
    CASE v.t = "num" -> [kind |-> "ok", val |-> SmallInt(Trunc(v.h))]
      [] v.t = "big" -> [kind |-> "ok", val |-> BigInt]
      [] v.t = "bool" -> [kind |-> "ok", val |-> SmallInt(IF v.b THEN 1 ELSE 0)]
      [] v.t = "inf" -> OverflowError
      [] v.t = "nan" -> ValueError("int", 0)
      [] v.t = "str" -> IF v.s \in NumericStrings
                        THEN [kind |-> "ok", val |-> SmallInt(StrToInt(v.s))]
                        ELSE ValueError("int", 0)
      [] OTHER -> TypeError

\* dict.get(key, default)
Get(d, key, default) == IF Has(d, key) THEN d[key] ELSE default

\* lines 137-144: the EvidenceRef list of a validated item, or the first error
\* raised by int(ev.get("score", 0))
RECURSIVE ConvertEvidence(_, _)
ConvertEvidence(evs, acc) ==
    IF evs = <<>> THEN [kind |-> "ok", evidence |-> acc]
    ELSE LET ev == Head(evs).f
             sc == int(Get(ev, "score", Num(0)))
         IN  IF sc.kind # "ok" THEN sc
             ELSE ConvertEvidence(Tail(evs),
                      Append(acc, [source |-> ev["source"].s,
                                   item_title |-> ev["item_title"].s,
                                   url |-> ev["url"].s,
                                   score |-> sc.val]))

\* lines 146-159: Opportunity(...) of a validated item
Opportunity(item, evidence) ==
    [id |-> item["id"].s,
     title |-> item["title"].s,
     pain |-> item["pain"].s,
     target_buyer |-> item["target_buyer"].s,
     solution_shape |-> item["solution_shape"].s,
     market_type |-> item["market_type"].s,
     effort_estimate |-> item["effort_estimate"].s,
     monetization |-> item["monetization"].s,
     moat |-> item["moat"].s,
     confidence |-> int(item["confidence"]).val.n,
     evidence |-> evidence,
     competition_notes |-> Get(item, "competition_notes", Str(""))]

\* ParseResult with an empty result always treated as a failure
ParseResult_EmptyRaises(data, opportunities, nErrors) ==
    IF opportunities = <<>>
    THEN ValueError("All opportunities failed validation", nErrors)
    ELSE [kind |-> "ok", opps |-> opportunities]

\* lines 161-172: what the loop's results become
ParseResult(data, opportunities, nErrors) ==
    IF nErrors > 0 /\ opportunities = <<>>
    THEN ValueError("All opportunities failed validation", nErrors)
    ELSE [kind |-> "ok", opps |-> opportunities]

\* lines 127-159: the loop over the array's elements from element i on; an
\* exception raised for one element ends the loop
RECURSIVE ParseItems(_, _, _, _)
ParseItems(data, i, opportunities, nErrors) ==
    IF i > Len(data) THEN ParseResult(data, opportunities, nErrors)
    ELSE LET item == data[i]
         IN  IF item.t # "obj"
             THEN ParseItems(data, i + 1, opportunities, nErrors + 1)
             ELSE LET v == _validate_opportunity_dict(item.f)
                  IN  IF v.kind # "ok" THEN v
                      ELSE IF v.errors # <<>>
                      THEN ParseItems(data, i + 1, opportunities, nErrors + 1)
                      ELSE LET c == ConvertEvidence(item.f["evidence"].items, <<>>)
                           IN  IF c.kind # "ok" THEN c
                               ELSE ParseItems(data, i + 1,
                                        Append(opportunities,
                                               Opportunity(item.f, c.evidence)),
                                        nErrors)

\* the list of Opportunity, or the exception the call raises
parse_opportunities_json(raw_text) ==
    LET x == _extract_json_array(raw_text)
    IN  IF x.kind # "ok" THEN x
        ELSE LET j == json_loads(x.text)
             IN  IF j.kind # "ok" THEN j
                 ELSE ParseItems(j.data.items, 1, <<>>, 0)

\* ------------------------------------------------------------ the store

\* the tables of storage/db.py that the extraction cycle writes, in rowid order
EmptyDb == [digests |-> <<>>, runs |-> <<>>, opportunities |-> <<>>, evidence |-> <<>>]

\* NextId that hands out the id of the last row again
NextId_Reuse(rows) == IF rows = <<>> THEN 1 ELSE Len(rows)

\* INTEGER PRIMARY KEY AUTOINCREMENT of a table no row is ever deleted from
NextId(rows) == Len(rows) + 1

\* the parameter types sqlite3 refuses to bind
BindError(v) ==
    CASE v.t \in {"list", "obj"} -> "ProgrammingError"
      [] v.t = "big" -> "OverflowError"
      [] OTHER -> "none"

\* competition_notes TEXT NOT NULL DEFAULT '': OR REPLACE stores the default
\* for a NULL
StoredNotes(v) == IF v.t = "null" THEN Str("") ELSE v

\* save_digest's INSERT INTO digests
InsertDigest(db, digest_type, item_count, now) ==
    [db EXCEPT !.digests = Append(@, [id |-> NextId(db.digests),
                                      digest_type |-> digest_type,
                                      item_count |-> item_count,
                                      generated_at |-> now])]

\* SELECT id FROM digests ORDER BY id DESC LIMIT 1 (0 for no row)
LastDigestId(db) == IF db.digests = <<>> THEN 0 ELSE db.digests[Len(db.digests)].id

\* INSERT INTO opportunity_runs of save_opportunity_run
InsertRun(db, digest_id, item_count, opportunity_count, now) ==
    [db EXCEPT !.runs = Append(@, [id |-> NextId(db.runs),
                                   digest_id |-> digest_id,
                                   item_count |-> item_count,
                                   opportunity_count |-> opportunity_count,
                                   generated_at |-> now])]

\* cursor.lastrowid after InsertRun
LastRunId(db) == db.runs[Len(db.runs)].id

OppRow(opp, run_id, now) ==
    [id |-> opp.id, run_id |-> run_id, title |-> opp.title, pain |-> opp.pain,
     target_buyer |-> opp.target_buyer, solution_shape |-> opp.solution_shape,
     market_type |-> opp.market_type, effort_estimate |-> opp.effort_estimate,
     monetization |-> opp.monetization, moat |-> opp.moat,
     confidence |-> opp.confidence,
     competition_notes |-> StoredNotes(opp.competition_notes),
     generated_at |-> now]

\* RowsExceptKey with the id alone for key
RowsExceptKey_AnyRun(rows, id, run_id) ==
    LET Keep(r) == r.id # id IN SelectSeq(rows, Keep)

\* the rows whose primary key is not (id, run_id), in order
RECURSIVE RowsExceptKey(_, _, _)
RowsExceptKey(rows, id, run_id) ==
    IF rows = <<>> THEN <<>>
    ELSE (IF Head(rows).id = id /\ Head(rows).run_id = run_id
          THEN <<>> ELSE <<Head(rows)>>)
         \o RowsExceptKey(Tail(rows), id, run_id)

\* INSERT OR REPLACE INTO opportunities: PRIMARY KEY (id, run_id); the row
\* in conflict is deleted and the new row inserted; evidence rows stay
InsertOrReplaceOpportunity(db, opp, run_id, now) ==
    [db EXCEPT !.opportunities =
        Append(RowsExceptKey(@, opp.id, run_id), OppRow(opp, run_id, now))]

\* INSERT INTO opportunity_evidence
InsertEvidence(db, opportunity_id, run_id, ev) ==
    [db EXCEPT !.evidence = Append(@, [id |-> NextId(db.evidence),
                                       opportunity_id |-> opportunity_id,
                                       run_id |-> run_id,
                                       source |-> ev.source,
                                       item_title |-> ev.item_title,
                                       url |-> ev.url,
                                       score |-> ev.score])]

\* lines 259-265: the evidence rows of one opportunity from entry i on; the
\* statement that fails to bind raises and leaves the earlier rows in place
RECURSIVE InsertEvidenceFrom(_, _, _, _)
InsertEvidenceFrom(db, opp, run_id, i) ==
    IF i > Len(opp.evidence) THEN [db |-> db, error |-> "none"]
    ELSE IF opp.evidence[i].score.big THEN [db |-> db, error |-> "OverflowError"]
    ELSE InsertEvidenceFrom(InsertEvidence(db, opp.id, run_id, opp.evidence[i]),
                            opp, run_id, i + 1)

\* lines 246-265 for one opportunity: its row, then its evidence rows
SaveOneOpportunity(db, opp, run_id, now) ==
    IF BindError(opp.competition_notes) # "none"
    THEN [db |-> db, error |-> BindError(opp.competition_notes)]
    ELSE InsertEvidenceFrom(InsertOrReplaceOpportunity(db, opp, run_id, now),
                            opp, run_id, 1)

\* ---------------------------------------------------- get_opportunity_trends

\* the opportunity ids of the model, in the order of ORDER BY o.id
IdOrder ==
    <<"a", "b", "bad", "c", "e", "f", "g", "h", "i", "l", "n", "t", "u", "v", "w">>

\* the rows of one opportunity id, in table order
RECURSIVE RowsOfId(_, _)
RowsOfId(rows, id) ==
    IF rows = <<>> THEN <<>>
    ELSE (IF Head(rows).id = id THEN <<Head(rows)>> ELSE <<>>)
         \o RowsOfId(Tail(rows), id)

\* EarliestRow with the latest row taken first
EarliestRow_Latest(rows) ==
    CHOOSE i \in 1..Len(rows) :
       \A j \in 1..Len(rows) :
          \/ rows[i].generated_at > rows[j].generated_at
          \/ (rows[i].generated_at = rows[j].generated_at /\ i <= j)

\* the index of the row ORDER BY generated_at ASC puts first
EarliestRow(rows) ==
    CHOOSE i \in 1..Len(rows) :
       \A j \in 1..Len(rows) :
          \/ rows[i].generated_at < rows[j].generated_at
          \/ (rows[i].generated_at = rows[j].generated_at /\ i <= j)

\* rows without the one at index i
WithoutRow(rows, i) == SubSeq(rows, 1, i - 1) \o SubSeq(rows, i + 1, Len(rows))

\* ORDER BY o.generated_at ASC within one id
RECURSIVE OrderByGeneratedAt(_)
OrderByGeneratedAt(rows) ==
    IF rows = <<>> THEN <<>>
    ELSE LET i == EarliestRow(rows)
         IN  <<rows[i]>> \o OrderByGeneratedAt(WithoutRow(rows, i))

\* lines 413-417: the data point of a row
DataPoint(row) ==
    [run_id |-> row.run_id, confidence |-> row.confidence,
     generated_at |-> row.generated_at]

\* lines 404-419 for the rows of one id: its entry, the title of the last row
TrendEntry(rows) ==
    [id |-> rows[1].id,
     title |-> rows[Len(rows)].title,
     data_points |-> [k \in 1..Len(rows) |-> DataPoint(rows[k])]]

\* lines 398-421, for the ids from position i of IdOrder on
RECURSIVE TrendsFrom(_, _)
TrendsFrom(db, i) ==
    IF i > Len(IdOrder) THEN <<>>
    ELSE LET rows == OrderByGeneratedAt(RowsOfId(db.opportunities, IdOrder[i]))
         IN  (IF rows = <<>> THEN <<>> ELSE <<TrendEntry(rows)>>)
             \o TrendsFrom(db, i + 1)

get_opportunity_trends(db) == TrendsFrom(db, 1)

\* --------------------------------------------------- collaborator responses

\* an evidence object with the given score field
Evidence(title, score) ==
    Obj([source |-> Str("github_issue"), item_title |-> Str(title),
         url |-> Str("u"), score |-> score])

\* an evidence object without a score
EvidenceNoScore(title) ==
    Obj([source |-> Str("hacker_news"), item_title |-> Str(title), url |-> Str("u")])

\* an opportunity object that satisfies the schema
ValidDict(id, confidence, evidence) ==
    [id |-> Str(id), title |-> Str("T"), pain |-> Str("P"),
     target_buyer |-> Str("B"), solution_shape |-> Str("S"),
     market_type |-> Str("M"), effort_estimate |-> Str("1-2 weeks"),
     monetization |-> Str("$"), moat |-> Str("X"),
     confidence |-> confidence, evidence |-> List(evidence),
     competition_notes |-> Str("N")]

\* d with field set to value
With(d, field, value) ==
    [k \in DOMAIN d \cup {field} |-> IF k = field THEN value ELSE d[k]]

\* d without field
Without(d, field) == [k \in DOMAIN d \ {field} |-> d[k]]

Good(id, conf) == Obj(ValidDict(id, Num(conf), <<Evidence("E1", Num(65))>>))

\* elements that satisfy the schema
GoodA82 == Good("a", 82)
GoodA90 == Good("a", 90)
GoodB == Obj(Without(ValidDict("b", Half(199),
                 <<Evidence("E1", Str("65")), EvidenceNoScore("E2")>>),
             "competition_notes"))
GoodBoolConf == Obj(ValidDict("c", Bool(TRUE), <<Evidence("E1", Half(3))>>))
\* schema-valid, but int() of the evidence score raises
ScoreNull == Obj(ValidDict("n", Num(50), <<Evidence("E1", Null)>>))
ScoreWord == Obj(ValidDict("w", Num(50), <<Evidence("E1", Str("high"))>>))
ScoreInf == Obj(ValidDict("i", Num(50), <<Evidence("E1", Inf)>>))
\* schema-valid, but the store cannot bind a field
ScoreBig == Obj(ValidDict("g", Num(50), <<Evidence("E1", Big), Evidence("E2", Num(1))>>))
NotesList == Obj(With(ValidDict("l", Num(50), <<Evidence("E1", Num(1))>>),
                      "competition_notes", List(<<>>)))
NotesNull == Obj(With(ValidDict("u", Num(0), <<Evidence("E1", Num(1))>>),
                      "competition_notes", Null))

\* elements that violate the schema
MissingFields == Obj([id |-> Str("bad")])
NoEvidence == Obj(ValidDict("e", Num(50), <<>>))
EvidenceNoUrl == Obj(ValidDict("e", Num(50), <<Obj([source |-> Str("rss")])>>))
BadEffort == Obj(With(ValidDict("f", Num(50), <<Evidence("E1", Num(1))>>),
                      "effort_estimate", Str("3 months")))
EffortList == Obj(With(ValidDict("f", Num(50), <<Evidence("E1", Num(1))>>),
                       "effort_estimate", List(<<>>)))
ConfHigh == Obj(ValidDict("h", Num(150), <<Evidence("E1", Num(1))>>))
ConfNegHalf == Obj(ValidDict("h", Half(-1), <<Evidence("E1", Num(1))>>))
ConfNaN == Obj(ValidDict("h", NaN, <<Evidence("E1", Num(1))>>))
ConfWord == Obj(ValidDict("h", Str("high"), <<Evidence("E1", Num(1))>>))
BlankTitle == Obj(With(ValidDict("t", Num(50), <<Evidence("E1", Num(1))>>),
                       "title", Str(" ")))
NotAnObject == Num(5)

\* the text of a JSON array: [e1, e2, ...]; an element that is itself a list
\* is written with its own brackets
RECURSIVE ElemTokens(_)
RECURSIVE ArrayItems(_)
ElemTokens(e) ==
    IF e.t = "list" THEN <<LB>> \o ArrayItems(e.items) \o <<RB>> ELSE <<Val(e)>>
ArrayItems(elems) ==
    IF elems = <<>> THEN <<>>
    ELSE IF Len(elems) = 1 THEN ElemTokens(elems[1])
    ELSE ElemTokens(elems[1]) \o <<Comma>> \o ArrayItems(Tail(elems))

ArrayText(elems) == <<LB>> \o ArrayItems(elems) \o <<RB>>

\* ```json\n ... \n```
FenceWrap(text) == <<Fence>> \o text \o <<Fence>>
\* prose before and after
ProseWrap(text) == <<Prose>> \o text \o <<Prose>>

\* the responses the completion client gives in the cycle
Responses ==
    { <<Prose>>,                                   \* no array at all
      <<LB, Prose>>,                               \* "[{incomplete"
      <<LB, Prose, RB>>,                           \* brackets around no JSON
      ArrayText(<<>>),
      FenceWrap(ArrayText(<<>>)),
      ArrayText(<<GoodA82>>),
      ProseWrap(ArrayText(<<GoodA90>>)),
      FenceWrap(ArrayText(<<GoodA82, GoodB>>)),
      ArrayText(<<GoodA82, GoodA90>>),
      ArrayText(<<MissingFields, GoodBoolConf>>),
      ArrayText(<<MissingFields, NoEvidence>>),
      ArrayText(<<ConfHigh, BadEffort>>),
      ArrayText(<<GoodA82, EffortList>>),
      ArrayText(<<ScoreNull>>),
      ArrayText(<<ScoreWord>>),
      ArrayText(<<GoodA82, ScoreBig>>),
      ArrayText(<<GoodA82, NotesList>>) }

\* what one call of complete() does: raise LLMError, or return a text
LLMOutcomes ==
    {[kind |-> "LLMError"]} \cup {[kind |-> "text", text |-> r] : r \in Responses}

\* the sizes of the item batch get_items_last_n_days returns
ItemCounts == {0, 5}

\* --------------------------------------------------------------- the state

VARIABLES
    pc,         \* where structured_opportunity_report is
    cycles,     \* calls of structured_opportunity_report so far
    calls,      \* calls of complete() in the current cycle
    items,      \* len(items) of the current cycle
    first,      \* the first attempt: the outcome of complete() and of the parse
    repair,     \* the repair attempt, likewise
    opps,       \* opportunities, once a parse succeeded
    result,     \* what the call returned
    raised,     \* the exception that escaped the call
    digest_id,  \* the local digest_id
    run_id,     \* the local run_id of save_opportunity_run
    idx,        \* the next opportunity save_opportunity_run writes
    now,        \* the local now of save_opportunity_run
    clock,      \* the wall clock
    conn,       \* the database as the Storage connection sees it
    committed,  \* the database as every other connection sees it
    dbAtStart,  \* committed when the current cycle started
    runArgs,    \* run id -> the opportunities save_opportunity_run was given
    clientOps,  \* store operations by another caller of the same Storage
    trends,     \* what the last get_opportunity_trends returned
    ptext,      \* the argument of parse_opportunities_json called on its own
    pout,       \* its outcome
    arg,        \* the argument of another function called on its own
    ret         \* what that call returned or raised

vars == <<pc, cycles, calls, items, first, repair, opps, result, raised,
          digest_id, run_id, idx, now, clock, conn, committed, dbAtStart,
          runArgs, clientOps, ptext, pout, arg, ret, trends>>

cycleVars == <<pc, cycles, calls, items, first, repair, opps, result, raised,
               digest_id, run_id, idx, now, clock, conn, committed, dbAtStart,
               runArgs, clientOps, trends>>

Pending == [kind |-> "pending"]
None == [kind |-> "None"]
ListResult(opportunities, rid) == [kind |-> "list", opps |-> opportunities, run_id |-> rid]
NoAttempt == [kind |-> "none"]

InitCycle ==
    /\ pc = "idle"
    /\ cycles = 0
    /\ calls = 0
    /\ items = 0
    /\ first = NoAttempt
    /\ repair = NoAttempt
    /\ opps = <<>>
    /\ result = Pending
    /\ raised = "none"
    /\ digest_id = 0
    /\ run_id = 0
    /\ idx = 0
    /\ now = 0
    /\ clock = 1
    /\ conn = EmptyDb
    /\ committed = EmptyDb
    /\ dbAtStart = EmptyDb
    /\ runArgs = <<>>
    /\ clientOps = 0
    /\ trends = <<>>

\* no function called on its own
NoCall ==
    /\ arg = <<>>
    /\ ret = Pending

Init ==
    /\ InitCycle
    /\ ptext = <<>>
    /\ pout = Pending
    /\ NoCall

\* ------------------------------------------ structured_opportunity_report

\* where the call goes next: its pc, what it returns, what escapes it
Goto(p) == [pc |-> p, result |-> Pending, raised |-> "none"]
Return(r) == [pc |-> "returned", result |-> r, raised |-> "none"]
Raise(kind) == [pc |-> "raised", result |-> Pending, raised |-> kind]

\* lines 311-313
AfterItems(n) == IF n = 0 THEN Return(ListResult(<<>>, 0)) ELSE Goto("first")

\* lines 330-332: except LLMError around the first complete()
AfterFirstLLMError == Return(None)

\* line 339: except (ValueError, json.JSONDecodeError) around the first parse
AfterFirstParseError(kind) ==
    IF kind = "ValueError" THEN Goto("repair") ELSE Raise(kind)

\* AfterSecondError with the repair request made again after it failed
AfterSecondError_Retry(kind) == Goto("repair")

\* lines 357-362: except (ValueError, json.JSONDecodeError, LLMError) around
\* the repair request and its parse
AfterSecondError(kind) ==
    IF kind \in {"ValueError", "LLMError"} THEN Return(None) ELSE Raise(kind)

\* lines 364-366
AfterParseOk(opportunities) ==
    IF opportunities = <<>> THEN Return(ListResult(<<>>, 0)) ELSE Goto("save_digest")

\* AfterStoreError with the store's exception swallowed and None returned
AfterStoreError_Swallow(kind) == Return(None)

\* lines 368-381: no handler around the store calls
AfterStoreError(kind) == Raise(kind)

\* the outcome of one attempt: complete(), then parse_opportunities_json
Attempt(out) ==
    IF out.kind = "LLMError" THEN [kind |-> "LLMError"]
    ELSE [kind |-> "text", text |-> out.text,
          parse |-> parse_opportunities_json(out.text)]

AttemptOk(a) == a.kind = "text" /\ a.parse.kind = "ok"
\* the exception an attempt that is not ok ended with
AttemptError(a) == IF a.kind = "LLMError" THEN "LLMError" ELSE a.parse.kind

Step(nxt) ==
    /\ pc' = nxt.pc
    /\ result' = nxt.result
    /\ raised' = nxt.raised

\* lines 309-316: the call starts and reads the item batch
StartCycle(n) ==
    /\ pc = "idle"
    /\ cycles < MaxCycles
    /\ cycles' = cycles + 1
    /\ items' = n
    /\ dbAtStart' = committed
    /\ Step(AfterItems(n))
    /\ UNCHANGED <<calls, first, repair, opps, digest_id, run_id, idx, now,
                   clock, conn, committed, runArgs, clientOps, ptext, pout, arg, ret,
                   trends>>

\* lines 318-340 and 364-366: the first request and the parse of its response
FirstAttempt(out) ==
    /\ pc = "first"
    /\ calls < MaxCalls
    /\ calls' = calls + 1
    /\ LET a == Attempt(out)
       IN  /\ first' = a
           /\ IF a.kind = "LLMError"
              THEN Step(AfterFirstLLMError) /\ opps' = opps
              ELSE IF a.parse.kind = "ok"
              THEN Step(AfterParseOk(a.parse.opps)) /\ opps' = a.parse.opps
              ELSE Step(AfterFirstParseError(a.parse.kind)) /\ opps' = opps
    /\ UNCHANGED <<cycles, items, repair, digest_id, run_id, idx, now, clock,
                   conn, committed, dbAtStart, runArgs, clientOps, ptext, pout, arg, ret,
                   trends>>

\* lines 342-366: the repair request and the parse of its response
RepairAttempt(out) ==
    /\ pc = "repair"
    /\ calls < MaxCalls
    /\ calls' = calls + 1
    /\ LET a == Attempt(out)
       IN  /\ repair' = a
           /\ IF AttemptOk(a)
              THEN Step(AfterParseOk(a.parse.opps)) /\ opps' = a.parse.opps
              ELSE Step(AfterSecondError(AttemptError(a))) /\ opps' = opps
    /\ UNCHANGED <<cycles, items, first, digest_id, run_id, idx, now, clock,
                   conn, committed, dbAtStart, runArgs, clientOps, ptext, pout, arg, ret,
                   trends>>

\* lines 369-370: save_digest inserts the digest row and commits
SaveDigest ==
    /\ pc = "save_digest"
    /\ conn' = InsertDigest(conn, "opportunities", items, clock)
    /\ committed' = conn'
    /\ clock' = clock + 1
    /\ pc' = "read_digest"
    /\ UNCHANGED <<cycles, calls, items, first, repair, opps, result, raised,
                   digest_id, run_id, idx, now, dbAtStart, runArgs, clientOps,
                   ptext, pout, arg, ret,
                   trends>>

\* lines 372-376
ReadDigestId ==
    /\ pc = "read_digest"
    /\ digest_id' = LastDigestId(conn)
    /\ pc' = "insert_run"
    /\ UNCHANGED <<cycles, calls, items, first, repair, opps, result, raised,
                   run_id, idx, now, clock, conn, committed, dbAtStart, runArgs,
                   clientOps, ptext, pout, arg, ret,
                   trends>>

\* db.py lines 237-243: the run row, inside the transaction the INSERT opens
InsertRunRow ==
    /\ pc = "insert_run"
    /\ now' = clock
    /\ clock' = clock + 1
    /\ conn' = InsertRun(conn, digest_id, items, Len(opps), clock)
    /\ run_id' = LastRunId(conn')
    /\ runArgs' = [r \in 1..run_id' |-> IF r = run_id' THEN opps ELSE runArgs[r]]
    /\ idx' = 1
    /\ pc' = "insert_opps"
    /\ UNCHANGED <<cycles, calls, items, first, repair, opps, result, raised,
                   digest_id, committed, dbAtStart, clientOps, ptext, pout, arg, ret,
                   trends>>

\* db.py lines 245-265: one turn of the loop; a statement that fails raises
\* out of save_opportunity_run and of the cycle, the transaction left open
InsertOpportunity ==
    /\ pc = "insert_opps"
    /\ idx <= Len(opps)
    /\ LET r == SaveOneOpportunity(conn, opps[idx], run_id, now)
       IN  /\ conn' = r.db
           /\ IF r.error = "none"
              THEN idx' = idx + 1 /\ UNCHANGED <<pc, result, raised>>
              ELSE idx' = idx /\ Step(AfterStoreError(r.error))
    /\ UNCHANGED <<cycles, calls, items, first, repair, opps, digest_id, run_id,
                   now, clock, committed, dbAtStart, runArgs, clientOps, ptext,
                   pout, arg, ret,
                   trends>>

\* db.py lines 267-268 and engine.py lines 383-388: commit, attach the run
\* id, return the opportunities
CommitRun ==
    /\ pc = "insert_opps"
    /\ idx > Len(opps)
    /\ committed' = conn
    /\ Step(Return(ListResult(opps, run_id)))
    /\ UNCHANGED <<cycles, calls, items, first, repair, opps, digest_id, run_id,
                   idx, now, clock, conn, dbAtStart, runArgs, clientOps, ptext,
                   pout, arg, ret,
                   trends>>

\* main.py lines 256-257: the command ends and closes the connection; what
\* was not committed is rolled back
Close ==
    /\ pc \in {"returned", "raised"}
    /\ conn' = committed
    /\ pc' = "idle"
    /\ calls' = 0
    /\ items' = 0
    /\ first' = NoAttempt
    /\ repair' = NoAttempt
    /\ opps' = <<>>
    /\ result' = Pending
    /\ raised' = "none"
    /\ digest_id' = 0
    /\ run_id' = 0
    /\ idx' = 0
    /\ now' = 0
    /\ runArgs' = [r \in 1..Len(committed.runs) |-> runArgs[r]]
    /\ UNCHANGED <<cycles, clock, committed, dbAtStart, clientOps, ptext, pout, arg, ret,
                   trends>>

\* db.py lines 207-213: save_digest called on the same Storage object by its
\* owner, between cycles or after one returned or raised; its commit() commits
\* whatever the connection has pending
ClientSaveDigest ==
    /\ pc \in {"idle", "returned", "raised"}
    /\ clientOps < MaxClientOps
    /\ clientOps' = clientOps + 1
    /\ conn' = InsertDigest(conn, "daily", 1, clock)
    /\ committed' = conn'
    /\ clock' = clock + 1
    /\ UNCHANGED <<pc, cycles, calls, items, first, repair, opps, result, raised,
                   digest_id, run_id, idx, now, dbAtStart, runArgs, ptext, pout, arg, ret,
                   trends>>

\* db.py lines 393-421: the trend query on the Storage connection, between
\* cycles or after one ended
GetOpportunityTrends ==
    /\ pc \in {"idle", "returned", "raised"}
    /\ trends # get_opportunity_trends(conn)
    /\ trends' = get_opportunity_trends(conn)
    /\ UNCHANGED <<pc, cycles, calls, items, first, repair, opps, result, raised,
                   digest_id, run_id, idx, now, clock, conn, committed, dbAtStart,
                   runArgs, clientOps, ptext, pout, arg, ret>>

Next ==
    \/ \E n \in ItemCounts : StartCycle(n)
    \/ \E out \in LLMOutcomes : FirstAttempt(out)
    \/ \E out \in LLMOutcomes : RepairAttempt(out)
    \/ SaveDigest
    \/ ReadDigestId
    \/ InsertRunRow
    \/ InsertOpportunity
    \/ CommitRun
    \/ Close
    \/ ClientSaveDigest
    \/ GetOpportunityTrends

Spec == Init /\ [][Next]_vars

\* ------------------------------- parse_opportunities_json called on its own

ParseElements ==
    { GoodA82, GoodB, GoodBoolConf, ScoreNull, ScoreWord, ScoreInf, ScoreBig,
      NotesList, NotesNull, MissingFields, NoEvidence, EvidenceNoUrl, BadEffort,
      EffortList, ConfHigh, ConfNegHalf, ConfNaN, ConfWord, BlankTitle,
      NotAnObject, List(<<>>) }

ParseArrays == UNION { [1..n -> ParseElements] : n \in 0..MaxElems }

ParseInputs ==
    { <<Prose>>, <<LB, Prose>>, <<LB, Prose, RB>>, <<Fence, Prose, Fence>> }
    \cup { ArrayText(a) : a \in ParseArrays }
    \cup { FenceWrap(ArrayText(a)) : a \in ParseArrays }
    \cup { ProseWrap(ArrayText(a)) : a \in ParseArrays }

InitParse ==
    /\ InitCycle
    /\ ptext \in ParseInputs
    /\ pout = Pending
    /\ NoCall

\* one call parse_opportunities_json(ptext)
ParseCall ==
    /\ pout = Pending
    /\ pout' = parse_opportunities_json(ptext)
    /\ UNCHANGED <<ptext, arg, ret, cycleVars>>

NextParse == ParseCall

SpecParse == InitParse /\ [][NextParse]_vars

\* ------------------------------------------------------------------ claims

\* the call has ended: it returned, or an exception escaped it
Ended == pc \in {"returned", "raised"}

\* the JSON value a response text holds: array extraction, then json.loads
Decoded(text) ==
    LET x == _extract_json_array(text)
    IN  IF x.kind # "ok" THEN x ELSE json_loads(x.text)

\* the schema of step 3: an object the validator has no complaint about
SchemaValid(e) ==
    /\ e.t = "obj"
    /\ ~EffortRaises(e.f)
    /\ _validate_opportunity_dict(e.f).errors = <<>>

\* the text holds a JSON array
HoldsArray(text) == Decoded(text).kind = "ok"
ElementsOf(text) == Decoded(text).data.items

\* the schema-valid elements of a sequence, in order
RECURSIVE ValidOnes(_)
ValidOnes(elems) ==
    IF elems = <<>> THEN <<>>
    ELSE (IF SchemaValid(Head(elems)) THEN <<Head(elems)>> ELSE <<>>)
         \o ValidOnes(Tail(elems))

\* the opportunities are the given elements, one for one and in order
SameAs(opportunities, elems) ==
    /\ Len(opportunities) = Len(elems)
    /\ \A i \in 1..Len(elems) :
          /\ opportunities[i].id = elems[i].f["id"].s
          /\ opportunities[i].title = elems[i].f["title"].s
          /\ Len(opportunities[i].evidence) = Len(elems[i].f["evidence"].items)

\* C1: in one call of structured_opportunity_report the completion client is
\* invoked at most twice, whatever it returns or raises.
C1_AtMostTwoRequests == calls <= 2

\* a cycle whose first response did not parse and whose repair request failed
\* too: both requests were made and the call has returned
C1_Witness ==
    /\ pc = "returned"
    /\ calls = 2
    /\ first.kind = "text"
    /\ repair.kind \in {"LLMError", "text"}
    /\ result = None

\* the first attempt failed in one of the ways C2 lists
FirstAttemptFailed ==
    \/ first.kind = "LLMError"
    \/ /\ first.kind = "text"
       /\ \/ ~HoldsArray(first.text)
          \/ /\ ElementsOf(first.text) # <<>>
             /\ ValidOnes(ElementsOf(first.text)) = <<>>

\* C2: whenever the first attempt fails (LLMError, no balanced array, no
\* JSON, every element invalid) a repair request is made before the cycle ends.
C2_RepairBeforeFailure ==
    (Ended /\ FirstAttemptFailed) => repair.kind # "none"

\* C3: the call ends by returning a list or None, None when both attempts
\* failed, and no exception escapes it.
C3_NoExceptionEscapes ==
    /\ pc # "raised"
    /\ pc = "returned" => result.kind \in {"list", "None"}
    /\ (pc = "returned" /\ FirstAttemptFailed /\ repair.kind # "none"
           /\ ~AttemptOk(repair)) => result = None

\* C4: a call that returns None has written nothing: the store is as it was
\* when the call started.
C4_FailedCycleWritesNothing ==
    [][(pc # "returned" /\ pc' = "returned" /\ result' = None)
          => (committed' = dbAtStart /\ conn' = dbAtStart)]_vars

\* a second cycle, started on a store that holds rows of the first, fails
\* after its repair request
C4_Witness ==
    /\ pc = "returned"
    /\ result = None
    /\ calls = 2
    /\ dbAtStart.runs # <<>>
    /\ committed = dbAtStart

\* the rows of run rid are all there: for each opportunity the run was given
\* its row, and for each of its evidence entries an evidence row
RunComplete(db, rid) ==
    \A i \in 1..Len(runArgs[rid]) :
       LET opp == runArgs[rid][i]
       IN  /\ \E k \in 1..Len(db.opportunities) :
                 /\ db.opportunities[k].id = opp.id
                 /\ db.opportunities[k].run_id = rid
           /\ \A j \in 1..Len(opp.evidence) :
                 \E k \in 1..Len(db.evidence) :
                    /\ db.evidence[k].opportunity_id = opp.id
                    /\ db.evidence[k].run_id = rid
                    /\ db.evidence[k].item_title = opp.evidence[j].item_title
                    /\ db.evidence[k].score = opp.evidence[j].score

HasRun(db, rid) == \E k \in 1..Len(db.runs) : db.runs[k].id = rid

\* C5: in what a reader sees, a run row is present if and only if all the
\* opportunity rows and evidence rows of the run are.
C5_RunsAtomic ==
    /\ \A k \in 1..Len(committed.runs) : RunComplete(committed, committed.runs[k].id)
    /\ \A k \in 1..Len(committed.opportunities) :
          HasRun(committed, committed.opportunities[k].run_id)
    /\ \A k \in 1..Len(committed.evidence) :
          HasRun(committed, committed.evidence[k].run_id)

\* the first response held nothing that parses as a JSON array
FirstUnparsable == first.kind = "text" /\ ~HoldsArray(first.text)

\* the repair response is an array of n >= 1 elements, all schema-valid
RepairAllValid ==
    /\ repair.kind = "text"
    /\ HoldsArray(repair.text)
    /\ ElementsOf(repair.text) # <<>>
    /\ ValidOnes(ElementsOf(repair.text)) = ElementsOf(repair.text)

\* C6: when the first response is unparsable and the repair response is an
\* array of n >= 1 valid elements, the call returns those n opportunities and
\* the store gains exactly one run, with opportunity_count n.
C6_RepairedRunStored ==
    (Ended /\ FirstUnparsable /\ RepairAllValid) =>
        /\ pc = "returned"
        /\ result.kind = "list"
        /\ SameAs(result.opps, ElementsOf(repair.text))
        /\ Len(committed.runs) = Len(dbAtStart.runs) + 1
        /\ committed.runs[Len(committed.runs)].opportunity_count
              = Len(ElementsOf(repair.text))

\* the first response parses to the empty array
FirstIsEmptyArray ==
    /\ first.kind = "text"
    /\ HoldsArray(first.text)
    /\ ElementsOf(first.text) = <<>>

\* C7: when the first response parses to an empty array the cycle succeeds
\* without repair: one request, and the call returns the empty list.
C7_EmptyArrayIsSuccess ==
    FirstIsEmptyArray =>
        /\ pc = "returned"
        /\ calls = 1
        /\ repair = NoAttempt
        /\ result = ListResult(<<>>, 0)

\* the first response was the empty array inside code fences, and the call
\* has returned
C7_Witness ==
    /\ FirstIsEmptyArray
    /\ first.text = FenceWrap(ArrayText(<<>>))
    /\ pc = "returned"
    /\ items > 0

\* C8: for an array with at least one schema-valid element the parse does not
\* raise and returns exactly the schema-valid elements, in input order.
C8_PartialAcceptance ==
    (pout # Pending /\ HoldsArray(ptext) /\ ValidOnes(ElementsOf(ptext)) # <<>>) =>
        /\ pout.kind = "ok"
        /\ SameAs(pout.opps, ValidOnes(ElementsOf(ptext)))

\* C9: for a non-empty array whose elements all fail validation the parse
\* raises ValueError with one reason per element.
C9_TotalRejection ==
    (pout # Pending /\ HoldsArray(ptext) /\ ElementsOf(ptext) # <<>>
        /\ ValidOnes(ElementsOf(ptext)) = <<>>) =>
        /\ pout.kind = "ValueError"
        /\ pout.reasons = Len(ElementsOf(ptext))

\* the invariants of an Opportunity
OpportunityOk(o) ==
    /\ o.confidence \in 0..100
    /\ o.effort_estimate \in VALID_EFFORT_ESTIMATES
    /\ Len(o.evidence) >= 1

AllOk(opportunities) ==
    \A i \in 1..Len(opportunities) : OpportunityOk(opportunities[i])

RowsOk(db) ==
    \A k \in 1..Len(db.opportunities) :
       /\ db.opportunities[k].confidence \in 0..100
       /\ db.opportunities[k].effort_estimate \in VALID_EFFORT_ESTIMATES

\* every opportunity row has at least one evidence row of its own
RowsHaveEvidence(db) ==
    \A k \in 1..Len(db.opportunities) :
       \E e \in 1..Len(db.evidence) :
          /\ db.evidence[e].opportunity_id = db.opportunities[k].id
          /\ db.evidence[e].run_id = db.opportunities[k].run_id

\* what C10 says of the Opportunity objects alone: those the parse returns and
\* those handed to the store
ParsedOpportunitiesOk ==
    /\ AttemptOk(first) => AllOk(first.parse.opps)
    /\ AttemptOk(repair) => AllOk(repair.parse.opps)
    /\ AllOk(opps)
    /\ \A rid \in DOMAIN runArgs : AllOk(runArgs[rid])

\* C10: every Opportunity the parse returns has a confidence in 0..100, an
\* allowed effort_estimate and at least one evidence entry, and so has every
\* opportunity a reader finds persisted: its row is in range and it has at
\* least one evidence row.
C10_OpportunityInvariants ==
    /\ ParsedOpportunitiesOk
    /\ RowsOk(committed)
    /\ RowsHaveEvidence(committed)

\* ------------------------------ _validate_opportunity_dict called on its own

MaxEvidence == 2

ConfidenceValues ==
    { Num(0), Num(100), Half(199), Half(201), Half(-1), Num(150), NaN, Inf, Big,
      Bool(TRUE), Str("high"), Null }

EffortValues ==
    { Str("weekend"), Str("1-2 weeks"), Str("month+"), Str("3 months"), Str(""),
      Null, Num(1), List(<<>>), Obj([weekend |-> Num(1)]) }

TitleValues == { Str("T"), Str(" "), Num(7) }

EvidenceEntries ==
    { Evidence("E1", Num(65)),
      EvidenceNoScore("E2"),
      Obj([source |-> Str("rss"), item_title |-> Str("E3")]),
      Obj([source |-> Str(" "), item_title |-> Str("E4"), url |-> Str("u")]),
      Obj([source |-> Str("rss"), item_title |-> Null, url |-> Str("u")]),
      Str("E6") }

EvidenceValues ==
    { List(evs) : evs \in UNION { [1..n -> EvidenceEntries] : n \in 0..MaxEvidence } }
    \cup { Null, Str("E1"), Evidence("E1", Num(65)) }

\* the dict of line 73's parameter d, every field present
ValidateDicts ==
    { With(With(With(With(ValidDict("v", Num(50), <<>>),
                          "confidence", c), "effort_estimate", e),
                "evidence", ev), "title", t) :
        c \in ConfidenceValues, e \in EffortValues, ev \in EvidenceValues,
        t \in TitleValues }

\* and the dicts that lack one field
ValidateInputs ==
    ValidateDicts
    \cup { Without(ValidDict("v", Num(50), <<Evidence("E1", Num(65))>>), f) :
             f \in DOMAIN ValidDict("v", Num(50), <<>>) }
    \cup { [id |-> Str("bad")] }

InitValidate ==
    /\ InitCycle
    /\ ptext = <<>>
    /\ pout = Pending
    /\ arg \in ValidateInputs
    /\ ret = Pending

\* one call _validate_opportunity_dict(arg)
ValidateCall ==
    /\ ret = Pending
    /\ ret' = _validate_opportunity_dict(arg)
    /\ UNCHANGED <<arg, ptext, pout, cycleVars>>

NextValidate == ValidateCall

SpecValidate == InitValidate /\ [][NextValidate]_vars

\* the conditions of the schema, each under the name of its field
JsonNumberIn0To100(v) == v.t = "num" /\ 0 <= v.h /\ v.h <= 200

EvidenceEntryOk(ev) ==
    /\ ev.t = "obj"
    /\ \A i \in 1..Len(evidence_fields) :
          /\ Has(ev.f, evidence_fields[i])
          /\ IsNonEmptyStr(ev.f[evidence_fields[i]])

FieldOk(d, field) ==
    CASE field = "confidence" ->
            Has(d, field) /\ JsonNumberIn0To100(d[field])
      [] field = "effort_estimate" ->
            Has(d, field) /\ d[field].t = "str" /\ d[field].s \in VALID_EFFORT_ESTIMATES
      [] field = "evidence" ->
            /\ Has(d, field)
            /\ d[field].t = "list"
            /\ d[field].items # <<>>
            /\ \A i \in 1..Len(d[field].items) : EvidenceEntryOk(d[field].items[i])
      [] OTHER -> Has(d, field) /\ IsNonEmptyStr(d[field])

SchemaFields ==
    { required_str_fields[i] : i \in 1..Len(required_str_fields) }
    \cup { "confidence", "evidence" }

ViolatedFields(d) == { f \in SchemaFields : ~FieldOk(d, f) }

NamedFields(errors) == { errors[i] : i \in 1..Len(errors) }

\* C11: _validate_opportunity_dict returns a list of errors, empty exactly when
\* the dict satisfies the schema, and every field whose condition is violated
\* is named by at least one of the errors.
C11_ValidatorMatchesSchema ==
    ret # Pending =>
        /\ ret.kind = "ok"
        /\ (ret.errors = <<>>) <=> (ViolatedFields(arg) = {})
        /\ ViolatedFields(arg) \subseteq NamedFields(ret.errors)

\* ------------------------------------- _extract_json_array called on its own

MaxText == 4
MaxChars == 2

\* what a response is made of, as far as the extraction tells it apart
ExtractTokens == { Fence, Prose, LB, RB, Quote }

\* any text of up to MaxText such pieces
ArbitraryTexts == UNION { [1..n -> ExtractTokens] : n \in 0..MaxText }

\* a JSON string literal: any characters but the quote between two quotes
StringLiterals ==
    { <<Quote>> \o cs \o <<Quote>> :
        cs \in UNION { [1..n -> { Prose, LB, RB, Fence }] : n \in 0..MaxChars } }

\* the texts of array elements: a number, a nested array, a string
ElementTexts ==
    { <<Val(Num(1))>>, <<LB, RB>>, <<LB, Val(Num(1)), RB>> } \cup StringLiterals

RECURSIVE JoinElements(_)
JoinElements(texts) ==
    IF texts = <<>> THEN <<>>
    ELSE IF Len(texts) = 1 THEN texts[1]
    ELSE texts[1] \o <<Comma>> \o JoinElements(Tail(texts))

\* the texts of JSON arrays of up to MaxElems elements
JsonArrayTexts ==
    { <<LB>> \o JoinElements(ts) \o <<RB>> :
        ts \in UNION { [1..n -> ElementTexts] : n \in 0..MaxElems } }

\* prose around the array: none, plain words, words with a bracketed remark
ProseTexts == { <<>>, <<Prose>>, <<Prose, LB, Val(Num(1)), RB, Prose>> }

\* the argument text, with the array A it was built around (<<>> for none)
ExtractInputs ==
    { [text |-> t, A |-> <<>>] : t \in ArbitraryTexts }
    \cup { [text |-> FenceWrap(A), A |-> A] : A \in JsonArrayTexts }
    \cup { [text |-> pre \o A \o suf, A |-> A] :
             pre \in ProseTexts, A \in JsonArrayTexts, suf \in ProseTexts }

InitExtract ==
    /\ InitCycle
    /\ ptext = <<>>
    /\ pout = Pending
    /\ arg \in ExtractInputs
    /\ ret = Pending

\* one call _extract_json_array(arg.text)
ExtractCall ==
    /\ ret = Pending
    /\ ret' = _extract_json_array(arg.text)
    /\ UNCHANGED <<arg, ptext, pout, cycleVars>>

NextExtract == ExtractCall

SpecExtract == InitExtract /\ [][NextExtract]_vars

\* A is the text of a JSON array
IsJsonArrayText(A) ==
    /\ A # <<>>
    /\ json_loads(A).kind = "ok"
    /\ json_loads(A).data.t = "list"

\* C12: for a valid JSON array text A, in code fences or between a prefix and
\* a suffix, _extract_json_array returns A itself.
C12_ExtractRoundTrip ==
    (ret # Pending /\ IsJsonArrayText(arg.A)) =>
        ret = [kind |-> "ok", text |-> arg.A]

\* the number of tokens of kind k among text[from..to]
CountKind(text, from, to, k) == Cardinality({ i \in from..to : text[i].k = k })

\* the positions of the opening brackets of a text
Openings(text) == { i \in 1..Len(text) : text[i].k = "lb" }

\* the first of them
FirstOpening(text) == CHOOSE i \in Openings(text) : \A j \in Openings(text) : i <= j

\* the positions, from the first opening bracket on, where as many brackets
\* have been closed as opened
BalancedAt(text) ==
    { j \in FirstOpening(text)..Len(text) :
        CountKind(text, FirstOpening(text), j, "lb")
            = CountKind(text, FirstOpening(text), j, "rb") }

\* C13: _extract_json_array raises "No JSON array" exactly when the text
\* without its fences has no opening bracket, raises "Unbalanced" exactly
\* when from the first opening bracket on the depth never returns to zero,
\* and otherwise returns a piece of the text that starts with an opening and
\* ends with a closing bracket.
C13_ExtractFailures ==
    ret # Pending =>
        LET text == StripFences(arg.text)
        IN  /\ (ret.kind = "ValueError" /\ ret.why = "No JSON array found")
                  <=> (Openings(text) = {})
            /\ (ret.kind = "ValueError" /\ ret.why = "Unbalanced brackets")
                  <=> (Openings(text) # {} /\ BalancedAt(text) = {})
            /\ (Openings(text) # {} /\ BalancedAt(text) # {}) =>
                  /\ ret.kind = "ok"
                  /\ Head(ret.text) = LB
                  /\ ret.text[Len(ret.text)] = RB
                  /\ \E i \in 1..Len(text) :
                        ret.text = SubSeq(text, i, i + Len(ret.text) - 1)

\* "[[x]" was found unbalanced
C13_Witness ==
    /\ arg.text = <<LB, LB, Prose, RB>>
    /\ ret = ValueError("Unbalanced brackets", 0)

\* the opportunity ids that have a row in db
StoredIds(db) == { db.opportunities[k].id : k \in 1..Len(db.opportunities) }

\* the rows of db that have the given id
StoredRows(db, id) ==
    { k \in 1..Len(db.opportunities) : db.opportunities[k].id = id }

\* t is what the claim says of the trends of db: one entry per stored id; its
\* data points are the stored rows of the id, one for one and one per run, in
\* ascending order of generation time, which is the order of the runs
TrendsMatch(t, db) ==
    /\ { t[i].id : i \in 1..Len(t) } = StoredIds(db)
    /\ \A i, j \in 1..Len(t) : t[i].id = t[j].id => i = j
    /\ \A i \in 1..Len(t) :
          LET pts == t[i].data_points
          IN  /\ Len(pts) = Cardinality(StoredRows(db, t[i].id))
              /\ \A k \in StoredRows(db, t[i].id) :
                    \E n \in 1..Len(pts) : pts[n] = DataPoint(db.opportunities[k])
              /\ \A m, n \in 1..Len(pts) :
                    m < n => /\ pts[m].generated_at < pts[n].generated_at
                             /\ pts[m].run_id < pts[n].run_id

\* C14: get_opportunity_trends returns one entry per opportunity id in the
\* store, whose data points are the stored records of the id, one per run,
\* earliest first.
C14_TrendsPerId ==
    [][trends' # trends => TrendsMatch(trends', conn)]_vars

\* id "a" persisted by two runs, with confidence 82 and then 90: one entry of
\* two data points, 82 first
C14_Witness ==
    \E i \in 1..Len(trends) :
       /\ trends[i].id = "a"
       /\ Len(trends[i].data_points) = 2
       /\ trends[i].data_points[1].confidence = 82
       /\ trends[i].data_points[2].confidence = 90
       /\ trends[i].data_points[1].run_id < trends[i].data_points[2].run_id

\* the last opportunity of the list that has the given id
LastWithId(opportunities, id) ==
    opportunities[CHOOSE i \in 1..Len(opportunities) :
                     /\ opportunities[i].id = id
                     /\ \A j \in (i + 1)..Len(opportunities) :
                           opportunities[j].id # id]

\* the opportunity rows and the evidence rows of db under the pair (id, rid)
RowsOfPair(db, id, rid) ==
    { k \in 1..Len(db.opportunities) :
        db.opportunities[k].id = id /\ db.opportunities[k].run_id = rid }

EvidenceOfPair(db, id, rid) ==
    { k \in 1..Len(db.evidence) :
        db.evidence[k].opportunity_id = id /\ db.evidence[k].run_id = rid }

\* C15: after a run was saved, each (id, run_id) pair of the run has exactly
\* one opportunity row, that of the last opportunity persisted under the
\* pair, and the evidence rows of that one alone.
C15_UpsertReplaces ==
    (pc = "returned" /\ result.kind = "list" /\ result.run_id # 0) =>
        \A i \in 1..Len(opps) :
           LET o == LastWithId(opps, opps[i].id)
               rid == result.run_id
           IN  /\ Cardinality(RowsOfPair(conn, o.id, rid)) = 1
               /\ \A k \in RowsOfPair(conn, o.id, rid) :
                     conn.opportunities[k].confidence = o.confidence
               /\ Cardinality(EvidenceOfPair(conn, o.id, rid)) = Len(o.evidence)

\* the rows of a table of db that dbAtStart did not hold
WrittenOpportunities(db) ==
    { k \in 1..Len(db.opportunities) :
        \A n \in 1..Len(dbAtStart.opportunities) :
           db.opportunities[k] # dbAtStart.opportunities[n] }

WrittenEvidence(db) ==
    { k \in 1..Len(db.evidence) :
        \A n \in 1..Len(dbAtStart.evidence) : db.evidence[k] # dbAtStart.evidence[n] }

\* C16: the run id a save_opportunity_run call returns is greater than the id
\* of every run committed before, hence than every run id returned before, and
\* every opportunity row and evidence row the call wrote carries it.
C16_RunIdsMonotonic ==
    [][(pc = "insert_opps" /\ pc' = "returned") =>
          /\ \A k \in 1..Len(committed.runs) :
                committed.runs[k].id < result'.run_id
          /\ \A k \in WrittenOpportunities(conn') :
                conn'.opportunities[k].run_id = result'.run_id
          /\ \A k \in WrittenEvidence(conn') :
                conn'.evidence[k].run_id = result'.run_id]_vars

\* a second run was saved and returned: the store held run 1, the call
\* returned 2 and wrote rows
C16_Witness ==
    /\ pc = "returned"
    /\ result.kind = "list"
    /\ result.run_id = 2
    /\ Len(dbAtStart.runs) = 1
    /\ WrittenOpportunities(committed) # {}
    /\ WrittenEvidence(committed) # {}

\* rows is still there, row for row, at the head of rows2
KeptIn(rows, rows2) ==
    /\ Len(rows) <= Len(rows2)
    /\ \A k \in 1..Len(rows) : rows2[k] = rows[k]

\* every row of db is a row of db2
RowsWithin(rows, rows2) ==
    \A k \in 1..Len(rows) : \E n \in 1..Len(rows2) : rows2[n] = rows[k]

\* C17: no step changes or removes a committed run row, opportunity row or
\* evidence row: what a reader saw of earlier runs it sees unchanged after any
\* later save, and the Storage connection sees it too, also when the new run
\* re-uses opportunity ids.
C17_RunsImmutable ==
    [][/\ KeptIn(committed.runs, committed'.runs)
       /\ KeptIn(committed.opportunities, committed'.opportunities)
       /\ KeptIn(committed.evidence, committed'.evidence)
       /\ RowsWithin(committed.runs, conn'.runs)
       /\ RowsWithin(committed.opportunities, conn'.opportunities)
       /\ RowsWithin(committed.evidence, conn'.evidence)]_vars

\* id "a" was saved by run 1 with confidence 82 and again by run 2 with 90;
\* both rows are there
C17_Witness ==
    /\ pc = "returned"
    /\ result.kind = "list"
    /\ result.run_id = 2
    /\ \E k \in RowsOfPair(committed, "a", 1) : committed.opportunities[k].confidence = 82
    /\ \E k \in RowsOfPair(committed, "a", 2) : committed.opportunities[k].confidence = 90
    /\ EvidenceOfPair(committed, "a", 1) # {}

\* ------------------------------------------------------- filters/scorer.py

\* a number as the scorer's arithmetic holds it: an int or a float of whole
\* value n, or the float NaN
PyInt(n) == [nan |-> FALSE, float |-> FALSE, n |-> n]
PyNaN == [nan |-> TRUE, float |-> TRUE, n |-> 0]

\* what a step of the scorer ends with: a number, or an exception
Value(x) == [kind |-> "ok", v |-> x]
Raised(exc) == [kind |-> exc]

\* a + b
Add(a, b) ==
    IF a.nan \/ b.nan THEN PyNaN
    ELSE [nan |-> FALSE, float |-> a.float \/ b.float, n |-> a.n + b.n]

\* min(x, cap): the first argument unless the second is smaller; no number
\* is smaller than NaN
MinCap(x, cap) == IF x.nan THEN x ELSE IF cap < x.n THEN PyInt(cap) ELSE x

\* v // k for a metadata value v (a JSON value, in halves): floor division
\* for int, bool and float, NaN for an infinite float, TypeError for the rest
FloorDiv(v, k) ==
    CASE v.t = "num" ->
            Value([nan |-> FALSE, float |-> v.h % 2 = 1, n |-> v.h \div (2 * k)])
      [] v.t = "bool" -> Value(PyInt((IF v.b THEN 1 ELSE 0) \div k))
      [] v.t \in {"nan", "inf"} -> Value(PyNaN)
      [] OTHER -> Raised("TypeError")

\* v >= t for a metadata value v and a threshold of t halves
GreaterEq(v, t) ==
    CASE v.t = "num" -> Value(v.h >= t)
      [] v.t = "bool" -> Value((IF v.b THEN 2 ELSE 0) >= t)
      [] v.t = "nan" -> Value(FALSE)
      [] v.t = "inf" -> Value(TRUE)
      [] OTHER -> Raised("TypeError")

\* bool(v)
Truthy(v) ==
    CASE v.t = "null" -> FALSE
      [] v.t = "bool" -> v.b
      [] v.t = "num" -> v.h # 0
      [] v.t = "str" -> v.s # ""
      [] v.t = "list" -> v.items # <<>>
      [] v.t = "obj" -> DOMAIN v.f # {}
      [] OTHER -> TRUE

\* meta.get(key, default)
MetaGet(meta, key, default) == IF key \in DOMAIN meta THEN meta[key] ELSE default

\* str.lower() on the strings of the model
Lower(s) ==
    CASE s = "Bug" -> "bug"
      [] s = "Ideas" -> "ideas"
      [] s = "Post-Mortem" -> "post-mortem"
      [] s = "HIPAA" -> "hipaa"
      [] s = "SOC 2" -> "soc 2"
      [] s = "SBOM" -> "sbom"
      [] s = "CVE-2024" -> "cve-2024"
      [] s \in {"show HN", "Show HN"} -> "show hn"
      [] OTHER -> s

high_signal_labels == {"bug", "breaking", "regression", "security", "critical"}

opportunity_labels ==
    {"enhancement", "feature-request", "feature", "feature request",
     "help-wanted", "help wanted", "proposal", "rfc"}

high_signal_categories ==
    {"ideas", "feature request", "feature requests", "feedback", "feature",
     "enhancements"}

\* any(l.lower() in wanted for l in ls), from element i on: True at the first
\* match, AttributeError at an element that is no str
RECURSIVE AnyLabelFrom(_, _, _)
AnyLabelFrom(ls, wanted, i) ==
    IF i > Len(ls) THEN Value(FALSE)
    ELSE IF ls[i].t # "str" THEN Raised("AttributeError")
    ELSE IF Lower(ls[i].s) \in wanted THEN Value(TRUE)
    ELSE AnyLabelFrom(ls, wanted, i + 1)

\* any(l.lower() in wanted for l in labels): a list is iterated, a str gives
\* its characters (none of them a label), anything else is not iterable
AnyLabel(labels, wanted) ==
    CASE labels.t = "list" -> AnyLabelFrom(labels.items, wanted, 1)
      [] labels.t = "str" -> Value(FALSE)
      [] OTHER -> Raised("TypeError")

\* score += points if the condition holds; the condition may raise
PointsIf(cond, points) ==
    IF cond.kind # "ok" THEN cond
    ELSE Value(PyInt(IF cond.v THEN points ELSE 0))

\* score += min(v // k, cap)
CappedCount(v, k, cap) ==
    LET q == FloorDiv(v, k)
    IN  IF q.kind # "ok" THEN q ELSE Value(MinCap(q.v, cap))

\* the statements of a branch one after the other: the first exception ends
\* it, else the contributions add up
RECURSIVE SumSteps(_, _)
SumSteps(steps, acc) ==
    IF steps = <<>> THEN Value(acc)
    ELSE IF Head(steps).kind # "ok" THEN Head(steps)
    ELSE SumSteps(Tail(steps), Add(acc, Head(steps).v))

\* lines 21-278: the patterns of the three tables that the texts of the model
\* meet, in the order of the tables, each with its delta
HIGH_SIGNAL_PATTERNS ==
    << [re |-> "breaking\\s+change", delta |-> 25],
       [re |-> "roll(ed)?\\s*back", delta |-> 25],
       [re |-> "post[- ]?mortem", delta |-> 30],
       [re |-> "incident\\s+(report|review)", delta |-> 25],
       [re |-> "CVE-\\d{4}", delta |-> 20] >>

ENTERPRISE_SIGNAL_PATTERNS ==
    << [re |-> "SOC\\s*2", delta |-> 20],
       [re |-> "HIPAA", delta |-> 20],
       [re |-> "SBOM", delta |-> 15] >>

LOW_SIGNAL_PATTERNS ==
    << [re |-> "game[- ]?changer", delta |-> -20],
       [re |-> "synerg", delta |-> -20],
       [re |-> "you\\s+won't\\s+believe", delta |-> -20],
       [re |-> "show\\s+HN", delta |-> -5] >>

\* the phrases of the model a pattern matches as written; re.search is
\* called without flags, so a letter matches itself only
Language(re) ==
    CASE re = "breaking\\s+change" -> {"breaking change"}
      [] re = "roll(ed)?\\s*back" -> {"rolled back", "rollback"}
      [] re = "post[- ]?mortem" -> {"post-mortem", "postmortem"}
      [] re = "incident\\s+(report|review)" -> {"incident report"}
      [] re = "CVE-\\d{4}" -> {"CVE-2024"}
      [] re = "SOC\\s*2" -> {"SOC 2"}
      [] re = "HIPAA" -> {"HIPAA"}
      [] re = "SBOM" -> {"SBOM"}
      [] re = "game[- ]?changer" -> {"game changer"}
      [] re = "synerg" -> {"synergy"}
      [] re = "you\\s+won't\\s+believe" -> {"you won't believe"}
      [] re = "show\\s+HN" -> {"show HN"}
      [] OTHER -> {}

\* re.search(pattern, text): the pattern matches somewhere in the text, a
\* text being the sequence of its phrases
Search(re, text) == \E i \in 1..Len(text) : text[i] \in Language(re)

\* the number of matches of the pattern in the text
MatchCount(re, text) == Cardinality({ i \in 1..Len(text) : text[i] \in Language(re) })

\* lines 286-296: one loop over a table, from pattern i on
RECURSIVE TableScore(_, _, _)
TableScore(table, text_lower, i) ==
    IF i > Len(table) THEN 0
    ELSE (IF Search(table[i].re, text_lower) THEN table[i].delta ELSE 0)
         + TableScore(table, text_lower, i + 1)

\* the loop adding the delta once for every match
RECURSIVE TableScore_PerMatch(_, _, _)
TableScore_PerMatch(table, text_lower, i) ==
    IF i > Len(table) THEN 0
    ELSE MatchCount(table[i].re, text_lower) * table[i].delta
         + TableScore_PerMatch(table, text_lower, i + 1)

\* _pattern_score with every match counted
_pattern_score_PerMatch(text) ==
    LET text_lower == [i \in 1..Len(text) |-> Lower(text[i])]
    IN  TableScore_PerMatch(HIGH_SIGNAL_PATTERNS, text_lower, 1)
        + TableScore_PerMatch(ENTERPRISE_SIGNAL_PATTERNS, text_lower, 1)
        + TableScore_PerMatch(LOW_SIGNAL_PATTERNS, text_lower, 1)

\* lines 281-298: the three tables applied to text.lower()
_pattern_score(text) ==
    LET text_lower == [i \in 1..Len(text) |-> Lower(text[i])]
    IN  TableScore(HIGH_SIGNAL_PATTERNS, text_lower, 1)
        + TableScore(ENTERPRISE_SIGNAL_PATTERNS, text_lower, 1)
        + TableScore(LOW_SIGNAL_PATTERNS, text_lower, 1)

\* lines 305-320
GithubIssueSteps(meta) ==
    << CappedCount(MetaGet(meta, "reactions", Num(0)), 5, 15),
       CappedCount(MetaGet(meta, "comments", Num(0)), 3, 10),
       PointsIf(AnyLabel(MetaGet(meta, "labels", List(<<>>)), high_signal_labels), 15),
       PointsIf(AnyLabel(MetaGet(meta, "labels", List(<<>>)), opportunity_labels), 10) >>

\* lines 322-324
GithubReleaseSteps(meta) ==
    << Value(PyInt(IF Truthy(MetaGet(meta, "prerelease", Null)) THEN -5 ELSE 0)) >>

\* line 333: not meta.get("has_answer", True) and upvotes >= 10
Unanswered(meta) ==
    IF Truthy(MetaGet(meta, "has_answer", Bool(TRUE))) THEN Value(FALSE)
    ELSE GreaterEq(MetaGet(meta, "upvotes", Num(0)), 20)

\* lines 337-343: meta.get("category", "").lower() in high_signal_categories
CategoryIsHighSignal(meta) ==
    LET category == MetaGet(meta, "category", Str(""))
    IN  IF category.t # "str" THEN Raised("AttributeError")
        ELSE Value(Lower(category.s) \in high_signal_categories)

\* lines 326-351
GithubDiscussionSteps(meta) ==
    << CappedCount(MetaGet(meta, "upvotes", Num(0)), 3, 20),
       CappedCount(MetaGet(meta, "comments", Num(0)), 5, 10),
       PointsIf(Unanswered(meta), 15),
       PointsIf(CategoryIsHighSignal(meta), 10),
       PointsIf(AnyLabel(MetaGet(meta, "labels", List(<<>>)), opportunity_labels), 10) >>

\* lines 353-361
HackerNewsSteps(meta) ==
    << CappedCount(MetaGet(meta, "score", Num(0)), 50, 15),
       CappedCount(MetaGet(meta, "comments", Num(0)), 30, 10),
       Value(PyInt(IF Truthy(MetaGet(meta, "search_keyword", Null)) THEN 5 ELSE 0)) >>

\* lines 363-371: the if / elif chain on cvss >= 9.0, 7.0, 4.0
CvssPoints(cvss) ==
    LET critical == GreaterEq(cvss, 18)
        high == GreaterEq(cvss, 14)
        medium == GreaterEq(cvss, 8)
    IN  IF critical.kind # "ok" THEN critical
        ELSE IF critical.v THEN Value(PyInt(20))
        ELSE IF high.v THEN Value(PyInt(15))
        ELSE IF medium.v THEN Value(PyInt(5))
        ELSE Value(PyInt(0))

NvdCveSteps(meta) == << CvssPoints(MetaGet(meta, "cvss_score", Num(0))) >>

\* lines 301-375
_engagement_score(item) ==
    SumSteps(CASE item.source = "github_issue" -> GithubIssueSteps(item.metadata)
               [] item.source = "github_release" -> GithubReleaseSteps(item.metadata)
               [] item.source = "github_discussion" -> GithubDiscussionSteps(item.metadata)
               [] item.source = "hacker_news" -> HackerNewsSteps(item.metadata)
               [] item.source = "nvd_cve" -> NvdCveSteps(item.metadata)
               [] OTHER -> <<>>,
             PyInt(0))

\* lines 378-389, on len(item.body.strip())
_body_quality_score(item) ==
    IF item.body_len < 50 THEN -10
    ELSE IF item.body_len < 200 THEN 0
    ELSE IF item.body_len < 1000 THEN 5
    ELSE 10

base == 20

\* Clamp without the upper limit
Clamp_NoUpper(total) == IF total.nan \/ total.n > 0 THEN total ELSE PyInt(0)

\* line 405: max(0, min(100, total)); NaN is not below 100, so min gives 100
Clamp(total) ==
    LET capped == IF ~total.nan /\ total.n < 100 THEN total ELSE PyInt(100)
    IN  IF capped.n > 0 THEN capped ELSE PyInt(0)

\* Total with the item's previous score counted in
Total_OnTopOfOld(item, engagement) ==
    Add(Add(PyInt(item.score.n + base + _pattern_score(item.text)), engagement),
        PyInt(_body_quality_score(item)))

\* line 404: base + pattern + engagement + quality
Total(item, engagement) ==
    Add(Add(PyInt(base + _pattern_score(item.text)), engagement),
        PyInt(_body_quality_score(item)))

\* lines 392-407: the score set on the item, or the exception that escapes
score_item(item) ==
    LET engagement == _engagement_score(item)
    IN  IF engagement.kind # "ok" THEN engagement
        ELSE Value(Clamp(Total(item, engagement.v)))

\* --------------------------------------------------- score_item called on items

MaxScorings == 2

\* a record (a dict) without the keys whose value is the marker Absent
Absent == [t |-> "absent"]
Present(fields) == [k \in { x \in DOMAIN fields : fields[x] # Absent } |-> fields[k]]

\* the values a count arrives as: whole, fractional, huge, negative, and the
\* malformed ones
CountValues ==
    { Absent, Num(0), Num(12), Half(15), Num(1000000), Num(-1000), NaN, Inf,
      Null, Str("12"), Bool(TRUE), List(<<>>) }

OtherCountValues == { Absent, Num(1000000), Num(-1000), Null }

LabelValues ==
    { Absent, List(<<Str("Bug"), Str("rfc")>>), List(<<Str("question")>>),
      List(<<Str("bug"), Null>>), List(<<Obj([name |-> Str("bug")])>>),
      Str("bug"), Null, Num(5) }

CategoryValues == { Absent, Str("Ideas"), Str("general"), Null, Num(5) }

CvssValues ==
    { Absent, Half(19), Num(9), Half(15), Num(7), Num(4), Half(7), NaN, Null,
      Str("9.8") }

MetadataOf(source) ==
    CASE source = "github_issue" ->
            { Present([reactions |-> r, comments |-> c, labels |-> l]) :
                r \in CountValues, c \in OtherCountValues, l \in LabelValues }
      [] source = "github_release" ->
            { Present([prerelease |-> p]) :
                p \in { Absent, Bool(TRUE), Bool(FALSE), Null, List(<<Num(1)>>) } }
      [] source = "github_discussion" ->
            { Present([upvotes |-> u, comments |-> c, has_answer |-> h,
                       category |-> g, labels |-> l]) :
                u \in CountValues, c \in { Absent, Num(1000000) },
                h \in { Absent, Bool(FALSE), Null },
                g \in CategoryValues,
                l \in { Absent, List(<<Str("rfc")>>), Null } }
      [] source = "hacker_news" ->
            { Present([score |-> s, comments |-> c, search_keyword |-> k]) :
                s \in CountValues, c \in OtherCountValues,
                k \in { Absent, Str("ci"), Str("") } }
      [] source = "nvd_cve" -> { Present([cvss_score |-> s]) : s \in CvssValues }
      [] OTHER -> { Present([labels |-> l]) : l \in { Absent, Null } }

Sources ==
    { "github_release", "github_issue", "github_discussion", "hacker_news", "rss",
      "nvd_cve" }

\* title and body, as the phrases in them that match a pattern
Texts ==
    { <<>>,
      <<"post-mortem">>,
      <<"post-mortem", "breaking change", "rolled back", "incident report">>,
      <<"game changer", "synergy", "you won't believe">>,
      <<"breaking change", "game changer">> }

BodyLengths == { 0, 60, 500, 1200 }

\* the items score_item is given: score is the dataclass default
ItemsOf(s) ==
    { [source |-> s, text |-> t, body_len |-> b, metadata |-> m, score |-> PyInt(0)] :
        t \in Texts, b \in BodyLengths, m \in MetadataOf(s) }

ScoreInputs == UNION { ItemsOf(s) : s \in Sources }

InitScore ==
    /\ InitCycle
    /\ ptext = <<>>
    /\ pout = Pending
    /\ arg \in ScoreInputs
    /\ ret = Pending

\* the scores the calls so far have set on the item
ScoresSoFar == IF ret = Pending THEN <<>> ELSE ret.scores

\* one call score_item(arg): the score is set on the item itself, or an
\* exception escapes and the item stays as it was
ScoreCall ==
    /\ \/ ret = Pending
       \/ ret.kind = "ok" /\ Len(ret.scores) < MaxScorings
    /\ LET r == score_item(arg)
       IN  IF r.kind = "ok"
           THEN /\ arg' = [arg EXCEPT !.score = r.v]
                /\ ret' = [kind |-> "ok", scores |-> Append(ScoresSoFar, r.v)]
           ELSE /\ arg' = arg
                /\ ret' = [kind |-> r.kind, scores |-> ScoresSoFar]
    /\ UNCHANGED <<ptext, pout, cycleVars>>

NextScore == ScoreCall

SpecScore == InitScore /\ [][NextScore]_vars

\* C18: the score of an item is a number from 0 to 100 after every call of
\* score_item, whatever the source, the text and the metadata.
C18_ScoreClamped ==
    /\ ~arg.score.nan /\ 0 <= arg.score.n /\ arg.score.n <= 100
    /\ \A i \in 1..Len(ScoresSoFar) :
          ~ScoresSoFar[i].nan /\ 0 <= ScoresSoFar[i].n /\ ScoresSoFar[i].n <= 100

\* every component at its highest: 20 + 105 + 50 + 10 = 185 is cut to 100
C18_Witness ==
    /\ ret # Pending
    /\ ret.kind = "ok"
    /\ arg.source = "github_issue"
    /\ Len(arg.text) = 4
    /\ arg.body_len = 1200
    /\ _engagement_score(arg) = Value(PyInt(50))
    /\ arg.score = PyInt(100)

\* the metadata keys that hold a count or a severity
CountKeys == { "reactions", "comments", "upvotes", "score", "cvss_score" }

\* a metadata value that is malformed for its key: a null or non-numeric
\* count, labels that are no list or hold something that is no string, a
\* category that is no string
Malformed(key, v) ==
    CASE key \in CountKeys -> v.t \in { "null", "str", "list", "obj" }
      [] key = "labels" ->
            \/ v.t # "list"
            \/ \E i \in 1..Len(v.items) : v.items[i].t # "str"
      [] key = "category" -> v.t # "str"
      [] OTHER -> FALSE

\* the item with its malformed metadata values left out
WithoutMalformed(item) ==
    [item EXCEPT !.metadata =
        [k \in { x \in DOMAIN item.metadata : ~Malformed(x, item.metadata[x]) }
            |-> item.metadata[k]]]

\* C19: score_item never raises, and a malformed metadata value counts for
\* nothing: the score is that of the item without it.
C19_ScoreNeverRaises ==
    ret # Pending =>
        /\ ret.kind = "ok"
        /\ score_item(arg) = score_item(WithoutMalformed(arg))

\* C20: the scores that successive calls of score_item set on the same item
\* are all the same.
C20_ScoreIdempotent ==
    \A i, j \in 1..Len(ScoresSoFar) : ScoresSoFar[i] = ScoresSoFar[j]

\* an item scored twice, its score neither 0 nor 100 and with engagement in it
C20_Witness ==
    /\ Len(ScoresSoFar) >= 2
    /\ ScoresSoFar[1].n = 39
    /\ arg.source = "github_discussion"
    /\ arg.score = ScoresSoFar[2]

\* ------------------------------------------------ filters/scorer.py filter_items

MaxItems == 3
MaxFilterCalls == 2

\* line 412: scored = [score_item(item) for item in items], from item i on;
\* each call sets the score on the item of the caller's list, and the first
\* exception ends the comprehension with the items before it already scored
RECURSIVE ScoreFrom(_, _)
ScoreFrom(list, i) ==
    IF i > Len(list) THEN [kind |-> "ok", items |-> list]
    ELSE LET r == score_item(list[i])
         IN  IF r.kind # "ok" THEN [kind |-> r.kind, items |-> list]
             ELSE ScoreFrom([list EXCEPT ![i].score = r.v], i + 1)

\* the filter keeping only the items whose score is the threshold itself
Keeps_OnlyEqual(item, threshold) == item.score.n = threshold

\* line 413: item.score >= threshold
Keeps(item, threshold) == item.score.n >= threshold

\* the place of an item in a list sorted by descending score: behind every
\* item that is not smaller, which keeps equal scores in their first order
RECURSIVE InsertByScore(_, _)
InsertByScore(sorted, item) ==
    IF sorted = <<>> THEN <<item>>
    ELSE IF Head(sorted).score.n >= item.score.n
         THEN <<Head(sorted)>> \o InsertByScore(Tail(sorted), item)
         ELSE <<item>> \o sorted

\* line 414: filtered.sort(key=lambda x: x.score, reverse=True), a stable sort
RECURSIVE SortByScore(_)
SortByScore(list) ==
    IF list = <<>> THEN <<>>
    ELSE InsertByScore(SortByScore(SubSeq(list, 1, Len(list) - 1)),
                       list[Len(list)])

\* lines 410-415: the list returned, or the exception that escapes; items is
\* the caller's list as the call leaves it
filter_items(list, threshold) ==
    LET scored == ScoreFrom(list, 1)
        Kept(item) == Keeps(item, threshold)
    IN  IF scored.kind # "ok"
        THEN [kind |-> scored.kind, out |-> <<>>, items |-> scored.items]
        ELSE [kind |-> "ok", out |-> SortByScore(SelectSeq(scored.items, Kept)),
              items |-> scored.items]

\* the items a collector hands over, by source_id: scores 20, 55, 50, 50, 100
\* (a sum of 135), 21.0 (a fractional count), 100 (a NaN count), and one
\* whose count is null
FilterPool ==
    LET item(id, s, t, b, m) ==
            [source_id |-> id, source |-> s, text |-> t, body_len |-> b,
             metadata |-> m, score |-> PyInt(0)]
        none == Present([labels |-> Absent])
    IN  { item("plain", "rss", <<>>, 60, none),
          item("pm", "rss", <<"post-mortem">>, 500, none),
          item("bc", "rss", <<"breaking change">>, 500, none),
          item("rb", "rss", <<"rolled back">>, 500, none),
          item("all", "rss",
               <<"post-mortem", "breaking change", "rolled back", "incident report">>,
               1200, none),
          item("frac", "github_issue", <<>>, 60,
               Present([reactions |-> Half(15), comments |-> Absent, labels |-> Absent])),
          item("nan", "github_issue", <<>>, 60,
               Present([reactions |-> NaN, comments |-> Absent, labels |-> Absent])),
          item("null", "github_issue", <<"post-mortem">>, 500,
               Present([reactions |-> Null, comments |-> Absent, labels |-> Absent])) }

\* lists of distinct items
RECURSIVE ItemLists(_)
ItemLists(n) ==
    IF n = 0 THEN { <<>> }
    ELSE LET shorter == ItemLists(n - 1)
         IN  shorter \cup
             { Append(l, x) : l \in { s \in shorter : Len(s) = n - 1 }, x \in FilterPool }

FilterInputs ==
    { l \in ItemLists(MaxItems) :
        \A i, j \in 1..Len(l) : l[i].source_id = l[j].source_id => i = j }

Thresholds == { 0, 21, 50, 100 }

InitFilter ==
    /\ InitCycle
    /\ ptext = <<>>
    /\ pout = Pending
    /\ arg \in FilterInputs
    /\ ret = Pending

\* the calls made so far, each with its threshold and what it ended with
FilterCalls == IF ret = Pending THEN <<>> ELSE ret.calls

\* one call filter_items(arg, threshold) on the caller's list
FilterCall(threshold) ==
    /\ Len(FilterCalls) < MaxFilterCalls
    /\ LET r == filter_items(arg, threshold)
       IN  /\ arg' = r.items
           /\ ret' = [kind |-> "filtered",
                      calls |-> Append(FilterCalls,
                                       [threshold |-> threshold, given |-> arg,
                                        kind |-> r.kind, out |-> r.out])]
    /\ UNCHANGED <<ptext, pout, cycleVars>>

NextFilter == \E threshold \in Thresholds : FilterCall(threshold)

SpecFilter == InitFilter /\ [][NextFilter]_vars

\* the source_ids of a list of items, in order
IdsOf(list) == [i \in 1..Len(list) |-> list[i].source_id]

\* the place of an id in the list given to a call
PlaceIn(given, id) == CHOOSE i \in 1..Len(given) : given[i].source_id = id

\* the score score_item computes for an item; only asked where it computes one
ComputedScore(item) == score_item(item).v.n

\* what C21 says of one call: it returns; an item of the input is in the
\* result exactly when its computed score reaches the threshold, and once;
\* scores do not increase along the result, and equal scores keep the order
\* of the input
FilterContract(call) ==
    /\ call.kind = "ok"
    /\ \A i \in 1..Len(call.given) :
          Cardinality({ k \in 1..Len(call.out) :
                          call.out[k].source_id = call.given[i].source_id })
            = IF ComputedScore(call.given[i]) >= call.threshold THEN 1 ELSE 0
    /\ \A k \in 1..Len(call.out) :
          /\ \E i \in 1..Len(call.given) : call.given[i].source_id = call.out[k].source_id
          /\ call.out[k].score.n = ComputedScore(call.out[k])
    /\ \A k, l \in 1..Len(call.out) :
          k < l =>
            /\ call.out[k].score.n >= call.out[l].score.n
            /\ call.out[k].score.n = call.out[l].score.n =>
                 PlaceIn(call.given, call.out[k].source_id)
                   < PlaceIn(call.given, call.out[l].source_id)

\* C21: every call of filter_items returns exactly the items whose computed
\* score is at least the threshold, each once, by descending score with equal
\* scores in input order, and two calls with the same list and threshold
\* return the same.
C21_FilterContract ==
    /\ \A c \in 1..Len(FilterCalls) : FilterContract(FilterCalls[c])
    /\ \A c, d \in 1..Len(FilterCalls) :
          FilterCalls[c].threshold = FilterCalls[d].threshold
            => IdsOf(FilterCalls[c].out) = IdsOf(FilterCalls[d].out)

\* the source_ids of the items a call returned
Returned(call) == { call.out[k].source_id : k \in 1..Len(call.out) }

\* C22: for two calls of filter_items on the same list with thresholds
\* t1 <= t2, every item returned for t2 is returned for t1.
C22_FilterMonotone ==
    \A c, d \in 1..Len(FilterCalls) :
        FilterCalls[c].threshold <= FilterCalls[d].threshold
          => Returned(FilterCalls[d]) \subseteq Returned(FilterCalls[c])

\* the higher threshold kept some items and dropped others
C22_Witness ==
    \E c, d \in 1..Len(FilterCalls) :
        /\ FilterCalls[c].threshold < FilterCalls[d].threshold
        /\ FilterCalls[c].kind = "ok"
        /\ FilterCalls[d].kind = "ok"
        /\ Returned(FilterCalls[d]) # {}
        /\ Returned(FilterCalls[d]) # Returned(FilterCalls[c])

\* ------------------------------------------------ storage/db.py insert_item

MaxInserts == 3

\* models.py 32-36: the sha256 prefix of "source:source_id"; no source value
\* holds a colon, so the string names one pair, and the hash is taken to keep
\* the strings of the model apart
content_hash(item) == item.source \o ":" \o item.source_id

\* the row of the items table written for an item (lines 129-138)
ItemRow(item) ==
    [content_hash |-> content_hash(item), source |-> item.source,
     source_id |-> item.source_id, title |-> item.title, score |-> item.score]

\* INSERT OR REPLACE in place of INSERT OR IGNORE
InsertOrIgnore_Replace(table, row) ==
    { r \in table : r.content_hash # row.content_hash } \cup { row }

\* lines 125-139: INSERT OR IGNORE INTO items; content_hash is the primary
\* key (line 34), a row with a stored key is dropped
InsertOrIgnore(table, row) ==
    IF \E r \in table : r.content_hash = row.content_hash THEN table
    ELSE table \cup { row }

\* lines 119-146: the table after the commit and the value of
\* SELECT changes() > 0
insert_item(table, item) ==
    LET after == InsertOrIgnore(table, ItemRow(item))
    IN  [table |-> after, returns |-> Cardinality(after) > Cardinality(table)]

\* the items that arrive: two sources that use the same ids, content and
\* score drifting between collections
StoredItems ==
    { [source |-> s, source_id |-> i, title |-> t, score |-> n] :
        s \in { "rss", "hacker_news" }, i \in { "1", "hn:1" },
        t \in { "first", "drifted" }, n \in { 50, 70 } }

InitItems ==
    /\ InitCycle
    /\ ptext = <<>>
    /\ pout = Pending
    /\ arg = [table |-> {}, inserts |-> 0]
    /\ ret = Pending

\* one call storage.insert_item(item); ret keeps the call, the table it found
\* and the value it returned
InsertItem(item) ==
    /\ arg.inserts < MaxInserts
    /\ LET r == insert_item(arg.table, item)
       IN  /\ arg' = [table |-> r.table, inserts |-> arg.inserts + 1]
           /\ ret' = [kind |-> "inserted", item |-> item, before |-> arg.table,
                      returns |-> r.returns]
    /\ UNCHANGED <<ptext, pout, cycleVars>>

NextItems == \E item \in StoredItems : InsertItem(item)

SpecItems == InitItems /\ [][NextItems]_vars

\* the rows stored for the fingerprint of an item
RowsFor(table, item) ==
    { r \in table : r.source = item.source /\ r.source_id = item.source_id }

MaxStories == 2
MaxCollects == 2

hn_min_score == 100
hn_search_min_score == 50

\* db.py 156-161
has_item(table, hash) == \E r \in table : r.content_hash = hash

\* db.py 148-154: insert_item for each item in turn
RECURSIVE insert_items(_, _)
insert_items(table, list) ==
    IF list = <<>> THEN table
    ELSE insert_items(insert_item(table, Head(list)).table, Tail(list))

\* hackernews.py 95-110 and 145-175: the Item built from a story; keyword is
\* Absent for a top story
HnItem(story, keyword) ==
    [source_id |-> "hn:" \o story.id, source |-> "hacker_news",
     title |-> story.id, text |-> story.text, body_len |-> story.body_len,
     metadata |-> Present([score |-> Num(story.points), comments |-> Num(0),
                           search_keyword |-> keyword]),
     score |-> PyInt(0)]

\* hackernews.py 62-115: the top stories at or above hn_min_score that are
\* not stored
RECURSIVE _collect_top_stories(_, _)
_collect_top_stories(table, stories) ==
    IF stories = <<>> THEN <<>>
    ELSE LET item == HnItem(Head(stories), Absent)
             rest == _collect_top_stories(table, Tail(stories))
         IN  IF Head(stories).points < hn_min_score \/ has_item(table, content_hash(item))
             THEN rest
             ELSE <<item>> \o rest

\* hackernews.py 117-179: the hits of a keyword search (the API returns the
\* stories above hn_search_min_score) that are not stored
RECURSIVE _search_stories(_, _)
_search_stories(table, hits) ==
    IF hits = <<>> THEN <<>>
    ELSE LET item == HnItem(Head(hits), Str("ci"))
             rest == _search_stories(table, Tail(hits))
         IN  IF Head(hits).points <= hn_search_min_score
                  \/ has_item(table, content_hash(item))
             THEN rest
             ELSE <<item>> \o rest

\* hackernews.py 50-56: the found items whose source_id is not yet in the list
RECURSIVE AppendUnseen(_, _)
AppendUnseen(list, found) ==
    IF found = <<>> THEN list
    ELSE AppendUnseen(
           IF \E i \in 1..Len(list) : list[i].source_id = Head(found).source_id
           THEN list ELSE Append(list, Head(found)),
           Tail(found))

\* hackernews.py 40-60: HackerNewsCollector.collect()
hn_collect(table, top, hits) ==
    AppendUnseen(_collect_top_stories(table, top), _search_stories(table, hits))

\* main.py 57-68 for one collector: what collect() returned and the items
\* table after the filtered items are stored; an exception of filter_items is
\* logged and nothing is stored
cmd_collect(table, top, hits, threshold) ==
    LET raw_items == hn_collect(table, top, hits)
        filtered == filter_items(raw_items, threshold)
    IN  [raw_items |-> raw_items,
         table |-> IF raw_items # <<>> /\ filtered.kind = "ok"
                   THEN insert_items(table, filtered.out) ELSE table]

\* the stories of the source, which stays as it is: signal scores 58, 13, 16
\* (below hn_min_score, found by the search only) and 49
Stories ==
    { [id |-> "1", points |-> 150, text |-> <<"post-mortem">>, body_len |-> 500],
      [id |-> "2", points |-> 150, text |-> <<>>, body_len |-> 0],
      [id |-> "3", points |-> 60, text |-> <<>>, body_len |-> 0],
      [id |-> "4", points |-> 200, text |-> <<"breaking change">>, body_len |-> 60] }

RECURSIVE StoryLists(_)
StoryLists(n) ==
    IF n = 0 THEN { <<>> }
    ELSE LET shorter == StoryLists(n - 1)
         IN  shorter \cup
             { Append(l, s) : l \in { x \in shorter : Len(x) = n - 1 },
                              s \in Stories }

score_thresholds == { 0, 40 }

InitCollect ==
    /\ InitCycle
    /\ ptext = <<>>
    /\ pout = Pending
    /\ \E top \in StoryLists(MaxStories), hits \in StoryLists(MaxStories),
          threshold \in score_thresholds :
          /\ \A i, j \in 1..Len(top) : top[i] = top[j] => i = j
          /\ arg = [top |-> top, hits |-> hits, threshold |-> threshold, table |-> {}]
    /\ ret = Pending

\* the source_ids each collect() so far returned
Collected == IF ret = Pending THEN <<>> ELSE ret.calls

\* one run of the collect command against the unchanged source
CmdCollect ==
    /\ Len(Collected) < MaxCollects
    /\ LET r == cmd_collect(arg.table, arg.top, arg.hits, arg.threshold)
       IN  /\ arg' = [arg EXCEPT !.table = r.table]
           /\ ret' = [kind |-> "collected",
                      calls |-> Append(Collected,
                                       { r.raw_items[i].source_id :
                                           i \in 1..Len(r.raw_items) })]
    /\ UNCHANGED <<ptext, pout, cycleVars>>

NextCollect == CmdCollect

SpecCollect == InitCollect /\ [][NextCollect]_vars

\* C24: an item returned by one collect() is not returned again by a later
\* collect() against the unchanged source.
C24_CollectIdempotent ==
    \A c, d \in 1..Len(Collected) : c < d => Collected[c] \cap Collected[d] = {}

\* ------------------------------------------- score_item on titles and bodies

MaxPhrases == 2

\* what titles and bodies are made of: terms of the tables in the letter case
\* people write them in, variants of one term, and a phrase no pattern knows
Phrases ==
    { "post-mortem", "Post-Mortem", "postmortem", "breaking change", "rollback",
      "CVE-2024", "SOC 2", "HIPAA", "hipaa", "SBOM", "show HN", "Show HN",
      "synergy", "hello" }

RECURSIVE PhraseTexts(_)
PhraseTexts(n) ==
    IF n = 0 THEN { <<>> }
    ELSE LET shorter == PhraseTexts(n - 1)
         IN  shorter \cup
             { Append(t, p) : t \in { x \in shorter : Len(x) = n - 1 }, p \in Phrases }

\* a few metadata per source; the engagement they give is 0, 2, 15, 20, or the
\* call raises
TextMetadataOf(source) ==
    CASE source = "github_issue" ->
            { Present([reactions |-> r]) : r \in { Absent, Num(12), Null } }
      [] source = "hacker_news" -> { Present([score |-> Num(1000000)]) }
      [] source = "nvd_cve" -> { Present([cvss_score |-> Half(19)]) }
      [] OTHER -> { Present([labels |-> Absent]) }

TextInputs ==
    UNION { { [source |-> s, text |-> t, body_len |-> b, metadata |-> m,
               score |-> PyInt(0)] :
                t \in PhraseTexts(MaxPhrases), b \in { 0, 500 },
                m \in TextMetadataOf(s) } : s \in Sources }

InitScoreText ==
    /\ InitCycle
    /\ ptext = <<>>
    /\ pout = Pending
    /\ arg \in TextInputs
    /\ ret = Pending

SpecScoreText == InitScoreText /\ [][NextScore]_vars

\* every pattern of the three tables, by table and place
AllPatterns ==
    { [table |-> "high", i |-> i, re |-> HIGH_SIGNAL_PATTERNS[i].re,
       delta |-> HIGH_SIGNAL_PATTERNS[i].delta] : i \in DOMAIN HIGH_SIGNAL_PATTERNS }
    \cup
    { [table |-> "enterprise", i |-> i, re |-> ENTERPRISE_SIGNAL_PATTERNS[i].re,
       delta |-> ENTERPRISE_SIGNAL_PATTERNS[i].delta] :
        i \in DOMAIN ENTERPRISE_SIGNAL_PATTERNS }
    \cup
    { [table |-> "low", i |-> i, re |-> LOW_SIGNAL_PATTERNS[i].re,
       delta |-> LOW_SIGNAL_PATTERNS[i].delta] : i \in DOMAIN LOW_SIGNAL_PATTERNS }

\* the sum of the deltas of a set of patterns
RECURSIVE DeltaSum(_)
DeltaSum(patterns) ==
    IF patterns = {} THEN 0
    ELSE LET p == CHOOSE x \in patterns : TRUE
         IN  p.delta + DeltaSum(patterns \ { p })

\* the patterns that match the case-folded text at least once
MatchingFolded(text) ==
    { p \in AllPatterns : \E i \in 1..Len(text) : Lower(text[i]) \in Language(p.re) }

\* the patterns whose term the text holds in some letter case
MatchingAnyCase(text) ==
    { p \in AllPatterns :
        \E i \in 1..Len(text), s \in Language(p.re) : Lower(text[i]) = Lower(s) }

\* clamp(x, 0, 100)
ClampTo100(x) == IF x < 0 THEN 0 ELSE IF x > 100 THEN 100 ELSE x

\* the call returned and set a score
Scored == ret # Pending /\ ret.kind = "ok" /\ ret.scores # <<>>

\* the score the last call set
FinalScore == ret.scores[Len(ret.scores)].n

\* E and Q of the scored item
EngagementDelta == _engagement_score(arg).v.n
QualityDelta == _body_quality_score(arg)

\* C25: the score set by score_item is clamp(20 + P + E + Q, 0, 100), P being
\* the sum of the deltas of the patterns that match the case-folded text at
\* least once, each counted once.
C25_ScoreFormula ==
    Scored =>
        FinalScore = ClampTo100(20 + DeltaSum(MatchingFolded(arg.text))
                                + EngagementDelta + QualityDelta)

\* one pattern matches twice and the sum is not cut: 20 + 30 + 2 + 5
C25_Witness ==
    /\ Scored
    /\ arg.text = <<"post-mortem", "postmortem">>
    /\ FinalScore = 57

\* the bucketed counts of a source, each with its divisor and cap
Buckets(source) ==
    CASE source = "github_issue" ->
            { [key |-> "reactions", k |-> 5, cap |-> 15],
              [key |-> "comments", k |-> 3, cap |-> 10] }
      [] source = "github_discussion" ->
            { [key |-> "upvotes", k |-> 3, cap |-> 20],
              [key |-> "comments", k |-> 5, cap |-> 10] }
      [] source = "hacker_news" ->
            { [key |-> "score", k |-> 50, cap |-> 15],
              [key |-> "comments", k |-> 30, cap |-> 10] }
      [] OTHER -> {}

\* the bucketed counts of the item are integers, of any size and sign
IntegerCounts(item) ==
    \A b \in Buckets(item.source) :
        LET v == MetaGet(item.metadata, b.key, Num(0))
        IN  v.t = "num" /\ v.h % 2 = 0

\* the least and the greatest engagement delta C26 gives for a source
EngagementRange(source) ==
    CASE source = "github_issue" -> [lo |-> 0, hi |-> 50]
      [] source = "github_release" -> [lo |-> -5, hi |-> 0]
      [] source = "github_discussion" -> [lo |-> 0, hi |-> 65]
      [] source = "hacker_news" -> [lo |-> 0, hi |-> 30]
      [] source = "nvd_cve" -> [lo |-> 0, hi |-> 20]
      [] OTHER -> [lo |-> 0, hi |-> 0]

\* the counts are integers that are not negative
NaturalCounts(item) ==
    /\ IntegerCounts(item)
    /\ \A b \in Buckets(item.source) : MetaGet(item.metadata, b.key, Num(0)).h >= 0

\* what C26 says of an item whose engagement is computed
EngagementBounded(item) ==
    LET e == _engagement_score(item)
    IN  e.kind = "ok" =>
          /\ ~e.v.nan
          /\ e.v.n >= EngagementRange(item.source).lo
          /\ e.v.n <= EngagementRange(item.source).hi
          /\ \A b \in Buckets(item.source) :
                LET c == CappedCount(MetaGet(item.metadata, b.key, Num(0)), b.k, b.cap)
                IN  c.v.n >= 0 /\ c.v.n <= b.cap

\* C26: for integer counts of any magnitude and sign every bucketed metric
\* contributes between 0 and its cap, and the engagement delta lies in 0..50
\* for issues, -5..0 for releases, 0..65 for discussions, 0..30 for forum
\* posts, 0..20 for vulnerability records and is 0 for feed entries.
C26_EngagementBounded ==
    (ret # Pending /\ IntegerCounts(arg)) => EngagementBounded(arg)

\* C27: every pattern of the tables whose term the text holds, in whatever
\* letter case, adds its delta to the score.
C27_CaseInsensitive ==
    Scored =>
        FinalScore = ClampTo100(20 + DeltaSum(MatchingAnyCase(arg.text))
                                + EngagementDelta + QualityDelta)

\* the opportunity rows stored with a run id
RowsOfRun(db, rid) ==
    { k \in 1..Len(db.opportunities) : db.opportunities[k].run_id = rid }

\* C28: for every stored run, opportunity_count is the number of opportunity
\* rows stored with that run id.
C28_CountMatchesRows ==
    \A r \in 1..Len(committed.runs) :
        committed.runs[r].opportunity_count
          = Cardinality(RowsOfRun(committed, committed.runs[r].id))

\* --------------------------------- other commands writing to the same database

MaxOtherWrites == 1

\* the digests written by other commands
OtherDigests(db) ==
    { k \in 1..Len(db.digests) : db.digests[k].digest_type = "weekly" }

\* db.py lines 207-213 run by another command (main.py: digest, weekly,
\* opportunities) on its own connection to the same file, while the cycle is
\* at its save_digest or between that and the SELECT of lines 372-374; the
\* cycle's connection holds no transaction there, so the write is not kept out
\* and the cycle's next statement sees it
OtherCommandSaveDigest ==
    /\ pc \in {"save_digest", "read_digest"}
    /\ conn = committed
    /\ Cardinality(OtherDigests(conn)) < MaxOtherWrites
    /\ conn' = InsertDigest(conn, "weekly", 1, clock)
    /\ committed' = conn'
    /\ clock' = clock + 1
    /\ UNCHANGED <<pc, cycles, calls, items, first, repair, opps, result, raised,
                   digest_id, run_id, idx, now, dbAtStart, runArgs, clientOps,
                   ptext, pout, arg, ret, trends>>

NextRace == Next \/ OtherCommandSaveDigest

SpecRace == Init /\ [][NextRace]_vars

\* the digest rows structured_opportunity_report saved before a run row
OwnDigestsBefore(db, run) ==
    { k \in 1..Len(db.digests) :
        /\ db.digests[k].digest_type = "opportunities"
        /\ db.digests[k].generated_at < run.generated_at }

\* the id of the digest saved by the call that saved the run: the last of them
OwnDigestId(db, run) ==
    LET own == OwnDigestsBefore(db, run)
    IN  db.digests[CHOOSE k \in own : \A j \in own : j <= k].id

\* C29: the digest_id of every run is the id of the digest row saved by the
\* call that saved the run, whatever other commands write in between.
C29_RunPointsAtOwnDigest ==
    \A r \in 1..Len(committed.runs) :
        committed.runs[r].digest_id = OwnDigestId(committed, committed.runs[r])

\* ------------------------------------------------------- collectors/nvd.py

MaxCves == 2
MaxNvdCollects == 2

\* config/settings.py 182, a CVSS score like those of the metadata
nvd_min_cvss == Num(7)

\* nvd.py 48: the first run looks back seven days; the clock of the model
\* counts days
seven_days == 7

\* the collector's state row: no row, or the last_modified cursor
NoCursor == [kind |-> "None"]

\* nvd.py 159-172: the Item of a CVE
NvdItem(cve) ==
    [source_id |-> "nvd:" \o cve.id, source |-> "nvd_cve", title |-> cve.id,
     text |-> <<>>, body_len |-> 500,
     metadata |-> Present([cvss_score |-> cve.cvss]), score |-> PyInt(0)]

\* what the NVD API answers for lastModStartDate and lastModEndDate: the CVEs
\* modified in the window, the ends included
ModifiedIn(cves, start_date, end_date) ==
    { c \in cves : start_date <= c.modified /\ c.modified <= end_date }

\* nvd.py 62-97: an empty list when the request fails; else the CVEs of the
\* window at or above the CVSS threshold that are not stored
_fetch_cves(table, cves, start_date, end_date, ok) ==
    IF ~ok THEN {}
    ELSE { c \in ModifiedIn(cves, start_date, end_date) :
             /\ ~(c.cvss.h < nvd_min_cvss.h)
             /\ ~has_item(table, content_hash(NvdItem(c))) }

\* nvd.py 39-60: the items returned and the cursor written, which is end_date
\* whatever _fetch_cves returned
nvd_collect(table, cves, last_modified, today, ok) ==
    LET start_date == IF last_modified # NoCursor THEN last_modified.at
                      ELSE today - seven_days
        end_date == today
    IN  [items |-> _fetch_cves(table, cves, start_date, end_date, ok),
         start_date |-> start_date,
         last_modified |-> [kind |-> "cursor", at |-> end_date]]

\* main.py 64-67: the returned items that pass the filter are stored
RECURSIVE StoreCves(_, _)
StoreCves(table, found) ==
    IF found = {} THEN table
    ELSE LET c == CHOOSE x \in found : TRUE
             filtered == filter_items(<<NvdItem(c)>>, 40)
         IN  StoreCves(insert_items(table, filtered.out), found \ { c })

InitNvd ==
    /\ InitCycle
    /\ ptext = <<>>
    /\ pout = Pending
    /\ arg = [cves |-> {}, today |-> 1, last_modified |-> NoCursor, table |-> {}]
    /\ ret = Pending

\* the collect() calls so far
NvdCalls == IF ret = Pending THEN <<>> ELSE ret.calls

\* NVD publishes or modifies a record; time passes
PublishCve(id, cvss) ==
    /\ Cardinality(arg.cves) < MaxCves
    /\ \A c \in arg.cves : c.id # id
    /\ arg' = [arg EXCEPT !.cves = @ \cup { [id |-> id, cvss |-> cvss,
                                             modified |-> arg.today] },
                          !.today = @ + 1]
    /\ UNCHANGED <<ret, ptext, pout, cycleVars>>

\* one run of the collect command for the NVD collector; the request works
\* or fails
NvdCollect(ok) ==
    /\ Len(NvdCalls) < MaxNvdCollects
    /\ LET r == nvd_collect(arg.table, arg.cves, arg.last_modified, arg.today, ok)
       IN  /\ arg' = [arg EXCEPT !.last_modified = r.last_modified,
                                 !.table = StoreCves(@, r.items),
                                 !.today = @ + 1]
           /\ ret' = [kind |-> "collected",
                      calls |-> Append(NvdCalls,
                                       [ok |-> ok, start_date |-> r.start_date,
                                        cursor |-> r.last_modified.at,
                                        returned |-> { c.id : c \in r.items }])]
    /\ UNCHANGED <<ptext, pout, cycleVars>>

NextNvd ==
    \/ \E id \in { "CVE-1", "CVE-2" }, cvss \in { Half(19), Num(7), Num(4) } :
          PublishCve(id, cvss)
    \/ \E ok \in BOOLEAN : NvdCollect(ok)

SpecNvd == InitNvd /\ [][NextNvd]_vars

\* the ids some collect() returned, and the ids stored
EverReturned == UNION { NvdCalls[k].returned : k \in 1..Len(NvdCalls) }
StoredCves == { r.title : r \in arg.table }

\* C30: a CVE at or above the CVSS threshold that was modified between two
\* successive values of the cursor was returned by some collect() or is
\* stored.
C30_AtLeastOnce ==
    \A k \in 1..Len(NvdCalls) : k > 1 =>
        \A c \in arg.cves :
            ( /\ ~(c.cvss.h < nvd_min_cvss.h)
              /\ NvdCalls[k - 1].cursor <= c.modified
              /\ c.modified <= NvdCalls[k].cursor )
            => c.id \in EverReturned \cup StoredCves

====
